---- MODULE Spec2Model ----
(***************************************************************************)
(* Model of the fundamentals screener: DataFetcher (cache, rate limit,     *)
(* retry loop), the criteria predicates and StockScreener.                 *)
(* Time is counted in whole seconds.  Numbers are exact rationals.         *)
(***************************************************************************)
EXTENDS Integers, Sequences, FiniteSets, TLC

(***************************************************************************)
(* Bounds of the exploration.                                              *)
(***************************************************************************)
MaxTime == 3          \* no new call is started once the clock passed Epoch + MaxTime
MaxRetries == 3       \* largest `retries` argument a direct caller passes
MaxDelay == 2         \* largest configured delay_between_requests
MaxCallDuration == 1  \* longest a provider round trip takes
MaxConfigLen == 3     \* most entries of a criteria configuration handed to the constructor
MaxRows == 3          \* most rows of a frame handed to filter_by_criteria
MaxPairs == 2         \* most comma-separated pieces of an inline criteria string
MaxEnvs == 2
Epoch == 5            \* time.time() when the DataFetcher is constructed

(***************************************************************************)
(* Values: Python's None, numbers, NaN and non-numeric objects.            *)
(***************************************************************************)
NoneV == [k |-> "none", n |-> 0, d |-> 1]
NaNV == [k |-> "nan", n |-> 0, d |-> 1]
TextV == [k |-> "text", n |-> 0, d |-> 1]
Rat(a, b) == [k |-> "num", n |-> a, d |-> b]
Num(a) == Rat(a, 1)

\* dict.get(key) and dict.get(key, default)
Get(dict, key) == IF key \in DOMAIN dict THEN dict[key] ELSE NoneV
GetOr(dict, key, default) == IF key \in DOMAIN dict THEN dict[key] ELSE default

\* Optional[Dict]: None is the empty tuple, a dict d is <<d>>
NoData == <<>>
Some(d) == <<d>>

(***************************************************************************)
(* Tickers are strings, modelled as sequences of characters.               *)
(***************************************************************************)
Tickers == {<<"A">>, <<"B">>}

UpperChar(c) == CASE c = "a" -> "A" [] c = "b" -> "B" [] OTHER -> c
upper(s) == [i \in 1..Len(s) |-> UpperChar(s[i])]
replace(s, old, new) == [i \in 1..Len(s) |-> IF s[i] = old THEN new ELSE s[i]]

_cache_path(ticker) == replace(upper(ticker), "/", "_") \o <<".pkl">>

\* ticker strings in both letter cases, and with the characters _cache_path rewrites
Symbols == {<<"a">>, <<"A">>, <<"a", "/", "b">>, <<"A", "_", "B">>}

CachePaths == {_cache_path(t) : t \in Tickers \cup Symbols}

(***************************************************************************)
(* Provider (yfinance) answers.  A DataFrame is a sequence of columns over *)
(* a common index; a Series is one column.                                 *)
(***************************************************************************)
Series(f) == [kind |-> "Series", data |-> f]
EmptySeries == Series(<<>>)
DataFrame(cols) == [columns |-> cols, index |-> IF cols = <<>> THEN {} ELSE DOMAIN cols[1]]
empty(df) == df.index = {} \/ df.columns = <<>>
iloc(df, j) == Series(df.columns[j])

IncomeTwoYears ==
    DataFrame(<< ("Total Revenue" :> Num(12)) @@ ("Net Income" :> Num(3)),
                 ("Total Revenue" :> Num(10)) @@ ("Net Income" :> Num(2)) >>)
IncomeOneYear ==
    DataFrame(<< ("Revenue" :> Num(8)) @@ ("Net Income" :> Num(-1)) >>)
BalanceFull ==
    DataFrame(<< ("Total Current Assets" :> Num(6)) @@ ("Total Current Liabilities" :> Num(3))
                 @@ ("Total Debt" :> Num(4)) @@ ("Stockholders Equity" :> Num(8)) >>)
BalanceAlias ==
    DataFrame(<< ("Current Assets" :> Num(2)) @@ ("Current Liabilities" :> Num(4))
                 @@ ("Total Debt" :> NaNV) @@ ("Total Stockholders Equity" :> Num(0)) >>)
EmptyFrame == DataFrame(<<>>)

InfoFull == ("marketCap" :> Num(20)) @@ ("trailingPE" :> Num(15)) @@ ("longName" :> <<"I", "n", "c">>)
InfoBare == ("marketCap" :> Num(5))

\* what one attempt against the provider can produce
ProviderAnswers ==
    { [raises |-> TRUE,  info |-> InfoBare, financials |-> EmptyFrame,     balance_sheet |-> EmptyFrame],
      [raises |-> FALSE, info |-> InfoFull, financials |-> IncomeTwoYears, balance_sheet |-> BalanceFull],
      [raises |-> FALSE, info |-> InfoBare, financials |-> IncomeOneYear,  balance_sheet |-> BalanceAlias],
      [raises |-> FALSE, info |-> InfoFull, financials |-> EmptyFrame,     balance_sheet |-> BalanceFull],
      [raises |-> FALSE, info |-> InfoFull, financials |-> IncomeTwoYears, balance_sheet |-> EmptyFrame] }

\* financial_data that names every company by its ticker
financial_data_ticker_named(ticker, ans) ==
    [ ticker |-> ticker,
      company_name |-> ticker,
      market_cap |-> Get(ans.info, "marketCap"),
      pe_ratio |-> Get(ans.info, "trailingPE"),
      income_statement |-> IF Len(ans.financials.columns) > 0 THEN iloc(ans.financials, 1) ELSE EmptySeries,
      balance_sheet |-> IF Len(ans.balance_sheet.columns) > 0 THEN iloc(ans.balance_sheet, 1) ELSE EmptySeries,
      prev_income_statement |-> IF Len(ans.financials.columns) > 1 THEN iloc(ans.financials, 2) ELSE EmptySeries,
      info |-> ans.info ]

\* the dict built at fetcher.py:136-145
financial_data(ticker, ans) ==
    [ ticker |-> ticker,
      company_name |-> GetOr(ans.info, "longName", ticker),
      market_cap |-> Get(ans.info, "marketCap"),
      pe_ratio |-> Get(ans.info, "trailingPE"),
      income_statement |-> IF Len(ans.financials.columns) > 0 THEN iloc(ans.financials, 1) ELSE EmptySeries,
      balance_sheet |-> IF Len(ans.balance_sheet.columns) > 0 THEN iloc(ans.balance_sheet, 1) ELSE EmptySeries,
      prev_income_statement |-> IF Len(ans.financials.columns) > 1 THEN iloc(ans.financials, 2) ELSE EmptySeries,
      info |-> ans.info ]

(***************************************************************************)
(* pickle: a dict is written as a header frame, one frame per item in key  *)
(* order, and a stop frame; reading a stream without its stop frame fails. *)
(***************************************************************************)
KeyOrder == << "ticker", "company_name", "market_cap", "pe_ratio", "income_statement",
               "balance_sheet", "prev_income_statement", "info", "_cache_hit" >>

RECURSIVE ItemFrames(_, _)
ItemFrames(dict, i) ==
    IF i > Len(KeyOrder) THEN <<>>
    ELSE (IF KeyOrder[i] \in DOMAIN dict THEN << <<"ITEM", KeyOrder[i], dict[KeyOrder[i]]>> >> ELSE <<>>)
         \o ItemFrames(dict, i + 1)

pickle_dump(dict) == << <<"DICT">> >> \o ItemFrames(dict, 1) \o << <<"STOP">> >>

WellFormed(bytes) == Len(bytes) >= 2 /\ bytes[Len(bytes)] = <<"STOP">>

\* pickle.load: [raised, isdict, value]
pickle_load(bytes) ==
    IF ~WellFormed(bytes) THEN [raised |-> TRUE, isdict |-> FALSE, value |-> <<>>]
    ELSE IF bytes[1] # <<"DICT">> THEN [raised |-> FALSE, isdict |-> FALSE, value |-> <<>>]
    ELSE LET items == SubSeq(bytes, 2, Len(bytes) - 1)
             keys == {items[i][2] : i \in 1..Len(items)}
             at(key) == CHOOSE i \in 1..Len(items) : items[i][2] = key
         IN [raised |-> FALSE, isdict |-> TRUE, value |-> [key \in keys |-> items[at(key)][3]]]

\* a cache file: absent, or bytes with a modification time
NoFile == [exists |-> FALSE, st_mtime |-> 0, bytes |-> <<>>]
File(mtime, bytes) == [exists |-> TRUE, st_mtime |-> mtime, bytes |-> bytes]

(***************************************************************************)
(* DataFetcher state.                                                      *)
(***************************************************************************)
VARIABLES
    now,                     \* time.time()
    delay_between_requests,  \* self.delay_between_requests
    cache_ttl_seconds,       \* self.cache_ttl_seconds
    use_cache,               \* self.use_cache
    _last_request_time,      \* self._last_request_time
    cache,                   \* files of self.cache_dir, by path
    pc,                      \* position inside get_financial_data
    ticker, retries, attempt,\* arguments and loop variable of the running call
    ret,                     \* value returned by the last get_financial_data
    src,                     \* where ret came from: "none", "cache", "network"
    hitAge,                  \* age of the entry served by a cache hit, else -1
    calls,                   \* provider calls made by the running call
    outcomes,                \* how each attempt of the running call ended
    slept,                   \* back-off sleeps of the running call, in order
    prevCall,                \* time of the latest provider call, -1 before the first
    lastGap,                 \* seconds between the latest two provider calls, -1 if n/a
    written                  \* per path: the dict this program last stored there, and when

config == <<delay_between_requests, cache_ttl_seconds, use_cache>>
frame == <<ticker, retries, attempt>>
history == <<calls, outcomes, slept, prevCall, lastGap, written>>
fetcherVars == <<now, config, _last_request_time, cache, pc, frame, ret, src, hitAge, history>>

Delays == 0..MaxDelay
TTLs == {1, 2}
RetryArgs == 0..MaxRetries
Durations == 0..MaxCallDuration
WriteOutcomes == {"ok", "open_fails", "torn"}

\* _load_cache that rejects an entry whose age equals the TTL
_load_cache_strict(store, t, clock, ttl) ==
    LET f == store[_cache_path(t)]
    IN  IF ~f.exists THEN NoData
        ELSE IF clock - f.st_mtime >= ttl THEN NoData
        ELSE LET cached == pickle_load(f.bytes)
             IN  IF ~cached.raised /\ cached.isdict
                 THEN Some(("_cache_hit" :> TRUE) @@ cached.value)
                 ELSE NoData

\* _load_cache that compares the age with the TTL in hours
_load_cache_hours(store, t, clock, ttl) ==
    LET f == store[_cache_path(t)]
    IN  IF ~f.exists THEN NoData
        ELSE IF clock - f.st_mtime > ttl * 3600 THEN NoData
        ELSE LET cached == pickle_load(f.bytes)
             IN  IF ~cached.raised /\ cached.isdict
                 THEN Some(("_cache_hit" :> TRUE) @@ cached.value)
                 ELSE NoData

\* _load_cache without the isinstance check: whatever was unpickled is returned
_load_cache_untyped(store, t, clock, ttl) ==
    LET f == store[_cache_path(t)]
    IN  IF ~f.exists THEN NoData
        ELSE IF clock - f.st_mtime > ttl THEN NoData
        ELSE LET cached == pickle_load(f.bytes)
             IN  IF cached.raised THEN NoData
                 ELSE IF cached.isdict THEN Some(("_cache_hit" :> TRUE) @@ cached.value)
                 ELSE Some(cached.value)

\* fetcher.py:52-68
_load_cache(store, t, clock, ttl) ==
    LET f == store[_cache_path(t)]
    IN  IF ~f.exists THEN NoData
        ELSE IF clock - f.st_mtime > ttl THEN NoData
        ELSE LET cached == pickle_load(f.bytes)
             IN  IF ~cached.raised /\ cached.isdict
                 THEN Some(("_cache_hit" :> TRUE) @@ cached.value)
                 ELSE NoData

\* _write_cache that clears the other entries of the directory when it stores one
_write_cache_clearing(store, t, data, clock, outcome) ==
    CASE outcome = "ok" -> [p \in DOMAIN store |->
                               IF p = _cache_path(t) THEN File(clock, pickle_dump(data)) ELSE NoFile]
      [] outcome = "open_fails" -> store
      [] outcome = "torn" -> [store EXCEPT ![_cache_path(t)] = File(clock, SubSeq(pickle_dump(data), 1, 1))]

\* fetcher.py:70-77; open() may fail, and dump may fail after open() truncated the file
_write_cache(store, t, data, clock, outcome) ==
    CASE outcome = "ok" -> [store EXCEPT ![_cache_path(t)] = File(clock, pickle_dump(data))]
      [] outcome = "open_fails" -> store
      [] outcome = "torn" -> [store EXCEPT ![_cache_path(t)] = File(clock, SubSeq(pickle_dump(data), 1, 1))]

\* fetcher.py:79-85: the time at which _rate_limit returns
_rate_limit(clock, last, delay) ==
    IF clock - last < delay THEN clock + (delay - (clock - last)) ELSE clock

\* how an answer of the provider looks to an observer of the provider
Kind(ans) ==
    IF ans.raises THEN "raise"
    ELSE IF ans.financials.columns = <<>> \/ ans.balance_sheet.columns = <<>> THEN "empty"
    ELSE "ok"

NothingWritten == [data |-> NoData, at |-> 0, replaced |-> FALSE]

\* statement_missing demanding both statements to be empty
statement_missing_both(ans) == empty(ans.financials) /\ empty(ans.balance_sheet)

\* fetcher.py:120-127: the two emptiness checks
statement_missing(ans) == empty(ans.financials) \/ empty(ans.balance_sheet)

\* more_attempts with the bound off by one
more_attempts_late(tried, limit) == tried < limit

\* fetcher.py:153: a failed attempt is followed by another one
more_attempts(tried, limit) == tried < limit - 1

FetcherInit ==
    /\ now = Epoch
    /\ delay_between_requests \in Delays
    /\ cache_ttl_seconds \in TTLs
    /\ use_cache \in BOOLEAN
    /\ _last_request_time = 0
    /\ cache = [p \in CachePaths |-> NoFile]
    /\ written = [p \in CachePaths |-> NothingWritten]
    /\ pc = "idle"
    /\ ticker = <<>> /\ retries = 0 /\ attempt = 0
    /\ ret = NoData /\ src = "none" /\ hitAge = -1
    /\ calls = 0 /\ outcomes = <<>> /\ slept = <<>>
    /\ prevCall = -1 /\ lastGap = -1

\* Enter that waits for the rate limit before it looks into the cache
Enter_limited(t, r) ==
    /\ ticker' = t /\ retries' = r /\ attempt' = 0
    /\ calls' = 0 /\ outcomes' = <<>> /\ slept' = <<>> /\ lastGap' = -1
    /\ now' = _rate_limit(now, _last_request_time, delay_between_requests)
    /\ _last_request_time' = now'
    /\ LET cached == IF use_cache THEN _load_cache(cache, t, now', cache_ttl_seconds) ELSE NoData
       IN  IF use_cache /\ cached # NoData
           THEN /\ ret' = cached /\ src' = "cache"
                /\ hitAge' = now' - cache[_cache_path(t)].st_mtime
                /\ pc' = "returned"
           ELSE /\ ret' = NoData /\ src' = "none" /\ hitAge' = -1
                /\ pc' = "rate_limit"
    /\ UNCHANGED <<config, cache, prevCall, written>>

\* Enter that goes to the provider without looking into the cache
Enter_uncached(t, r) ==
    /\ ticker' = t /\ retries' = r /\ attempt' = 0
    /\ calls' = 0 /\ outcomes' = <<>> /\ slept' = <<>> /\ lastGap' = -1
    /\ ret' = NoData /\ src' = "none" /\ hitAge' = -1
    /\ pc' = "rate_limit"
    /\ UNCHANGED <<now, config, _last_request_time, cache, prevCall, written>>

\* fetcher.py:98-103: entry of get_financial_data up to the cache check
Enter(t, r) ==
    /\ ticker' = t /\ retries' = r /\ attempt' = 0
    /\ calls' = 0 /\ outcomes' = <<>> /\ slept' = <<>> /\ lastGap' = -1
    /\ LET cached == IF use_cache THEN _load_cache(cache, t, now, cache_ttl_seconds) ELSE NoData
       IN  IF use_cache /\ cached # NoData
           THEN /\ ret' = cached /\ src' = "cache"
                /\ hitAge' = now - cache[_cache_path(t)].st_mtime
                /\ pc' = "returned"
           ELSE /\ ret' = NoData /\ src' = "none" /\ hitAge' = -1
                /\ pc' = "rate_limit"
    /\ UNCHANGED <<now, config, _last_request_time, cache, prevCall, written>>

get_financial_data(t, r) ==
    /\ pc \in {"idle", "returned"}
    /\ now <= Epoch + MaxTime
    /\ Enter(t, r)

\* fetcher.py:103-105: _rate_limit(), then the loop is entered (or skipped when retries = 0)
RateLimit ==
    /\ pc = "rate_limit"
    /\ now' = _rate_limit(now, _last_request_time, delay_between_requests)
    /\ _last_request_time' = now'
    /\ pc' = IF retries > 0 THEN "attempt" ELSE "returned"
    /\ UNCHANGED <<config, cache, frame, ret, src, hitAge, history>>

\* Succeed in which a failed cache write reaches the except clause of the retry loop
Succeed_write_fatal(ans, dur, wr) ==
    /\ now' = IF use_cache /\ wr # "ok" /\ more_attempts(attempt, retries)
              THEN now + dur + 1 * (attempt + 1)
              ELSE now + dur
    /\ cache' = IF use_cache
                THEN _write_cache(cache, ticker, financial_data(ticker, ans), now + dur, wr)
                ELSE cache
    /\ written' = IF use_cache /\ wr # "open_fails"
                  THEN [written EXCEPT ![_cache_path(ticker)] =
                           [data |-> IF wr = "ok" THEN Some(financial_data(ticker, ans)) ELSE NoData,
                            at |-> now + dur,
                            replaced |-> wr = "ok" /\ @.data \notin {NoData, Some(financial_data(ticker, ans))}]]
                  ELSE written
    /\ IF use_cache /\ wr # "ok"
       THEN /\ UNCHANGED <<ret, src>>
            /\ IF more_attempts(attempt, retries)
               THEN /\ slept' = Append(slept, 1 * (attempt + 1))
                    /\ attempt' = attempt + 1
                    /\ pc' = "attempt"
               ELSE /\ pc' = "returned"
                    /\ UNCHANGED <<slept, attempt>>
       ELSE /\ ret' = Some(financial_data(ticker, ans))
            /\ src' = "network"
            /\ pc' = "returned"
            /\ UNCHANGED <<slept, attempt>>

\* fetcher.py:129-149: the dict is built, written to the cache (best effort) and returned
Succeed(ans, dur, wr) ==
    /\ now' = now + dur
    /\ cache' = IF use_cache
                THEN _write_cache(cache, ticker, financial_data(ticker, ans), now', wr)
                ELSE cache
    /\ written' = IF use_cache /\ wr # "open_fails"
                  THEN [written EXCEPT ![_cache_path(ticker)] =
                           [data |-> IF wr = "ok" THEN Some(financial_data(ticker, ans)) ELSE NoData,
                            at |-> now',
                            replaced |-> wr = "ok" /\ @.data \notin {NoData, Some(financial_data(ticker, ans))}]]
                  ELSE written
    /\ ret' = Some(financial_data(ticker, ans))
    /\ src' = "network"
    /\ pc' = "returned"
    /\ UNCHANGED <<slept, attempt>>

\* Attempt that backs off one second after every failure
Attempt_flat(ans, dur, wr) ==
    /\ pc = "attempt"
    /\ calls' = calls + 1
    /\ prevCall' = now
    /\ lastGap' = IF prevCall = -1 THEN -1 ELSE now - prevCall
    /\ outcomes' = Append(outcomes, Kind(ans))
    /\ IF ans.raises
       THEN /\ IF more_attempts(attempt, retries)
               THEN /\ now' = now + dur + 1
                    /\ slept' = Append(slept, 1)
                    /\ attempt' = attempt + 1
                    /\ pc' = "attempt"
               ELSE /\ now' = now + dur
                    /\ pc' = "returned"
                    /\ UNCHANGED <<slept, attempt>>
            /\ UNCHANGED <<ret, src, cache, written>>
       ELSE IF statement_missing(ans)
       THEN /\ now' = now + dur
            /\ pc' = "returned"
            /\ UNCHANGED <<ret, src, cache, written, slept, attempt>>
       ELSE Succeed(ans, dur, wr)
    /\ UNCHANGED <<config, _last_request_time, ticker, retries, hitAge>>

\* fetcher.py:105-157: one iteration of the retry loop
Attempt(ans, dur, wr) ==
    /\ pc = "attempt"
    /\ calls' = calls + 1
    /\ prevCall' = now
    /\ lastGap' = IF prevCall = -1 THEN -1 ELSE now - prevCall
    /\ outcomes' = Append(outcomes, Kind(ans))
    /\ IF ans.raises
       THEN /\ IF more_attempts(attempt, retries)
               THEN /\ now' = now + dur + 1 * (attempt + 1)
                    /\ slept' = Append(slept, 1 * (attempt + 1))
                    /\ attempt' = attempt + 1
                    /\ pc' = "attempt"
               ELSE /\ now' = now + dur
                    /\ pc' = "returned"
                    /\ UNCHANGED <<slept, attempt>>
            /\ UNCHANGED <<ret, src, cache, written>>
       ELSE IF statement_missing(ans)
       THEN /\ now' = now + dur
            /\ pc' = "returned"
            /\ UNCHANGED <<ret, src, cache, written, slept, attempt>>
       ELSE Succeed(ans, dur, wr)
    /\ UNCHANGED <<config, _last_request_time, ticker, retries, hitAge>>

\* time passes between calls
Tick ==
    /\ pc \in {"idle", "returned"}
    /\ now < Epoch + MaxTime
    /\ now' = now + 1
    /\ pc' = "idle"
    /\ ret' = NoData /\ src' = "none" /\ hitAge' = -1
    /\ ticker' = <<>> /\ retries' = 0 /\ attempt' = 0
    /\ calls' = 0 /\ outcomes' = <<>> /\ slept' = <<>> /\ lastGap' = -1
    /\ UNCHANGED <<config, _last_request_time, cache, prevCall, written>>

(***************************************************************************)
(* Arithmetic and comparisons of Python values.                            *)
(***************************************************************************)
Abs(x) == IF x < 0 THEN -x ELSE x

RECURSIVE GCD(_, _)
GCD(a, b) == IF b = 0 THEN a ELSE GCD(b, a % b)

\* the rational a/b in lowest terms with a positive denominator (b # 0)
Normal(a, b) ==
    LET g == GCD(Abs(a), Abs(b))
        sign == IF b < 0 THEN -1 ELSE 1
    IN  Rat((sign * a) \div g, (sign * b) \div g)

Sub(x, y) == Normal(x.n * y.d - y.n * x.d, x.d * y.d)
Div(x, y) == Normal(x.n * y.d, x.d * y.n)

BoolV(b) == [k |-> "bool", n |-> IF b THEN 1 ELSE 0, d |-> 1]
Zero == Num(0)
IsNumber(x) == x.k \in {"num", "bool", "nan"}
Truthy(x) == CASE x.k \in {"num", "bool"} -> x.n # 0 [] x.k = "none" -> FALSE [] OTHER -> TRUE

\* x >= y, x <= y, x > y in Python: "T", "F", or "E" when the comparison raises TypeError
Compare(x, op, y) ==
    IF x.k = "text" /\ y.k = "text" THEN (IF op = ">" THEN "F" ELSE "T")
    ELSE IF ~IsNumber(x) \/ ~IsNumber(y) THEN "E"
    ELSE IF x.k = "nan" \/ y.k = "nan" THEN "F"
    ELSE LET l == x.n * y.d
             r == y.n * x.d
         IN  IF (op = ">=" /\ l >= r) \/ (op = "<=" /\ l <= r) \/ (op = ">" /\ l > r)
             THEN "T" ELSE "F"

(***************************************************************************)
(* criteria.py: the predicates.  A predicate returns (passed, reason) or   *)
(* raises; a failure reason carries the two numbers it prints.             *)
(***************************************************************************)
Passed == [raised |-> FALSE, passed |-> TRUE, reason |-> <<"">>]
Failed(reason) == [raised |-> FALSE, passed |-> FALSE, reason |-> reason]
Raised == [raised |-> TRUE, passed |-> FALSE, reason |-> <<"">>]

\* f"{x:...}" raises for a non-number
Formats(x) == IsNumber(x)

\* evaluate that reads an absent field as zero
evaluate_zero(data, field, op, value, missing, failure) ==
    LET x == IF Get(data, field) = NoneV THEN Zero ELSE Get(data, field)
    IN  LET c == Compare(x, op, value)
        IN  IF c = "E" THEN Raised
            ELSE IF c = "T" THEN Passed
            ELSE IF Formats(x) /\ Formats(value) THEN Failed(<<failure, x, value>>)
            ELSE Raised

\* the body shared by the threshold predicates: field against value with op
evaluate(data, field, op, value, missing, failure) ==
    LET x == Get(data, field)
    IN  IF x = NoneV THEN Failed(<<missing>>)
        ELSE LET c == Compare(x, op, value)
             IN  IF c = "E" THEN Raised
                 ELSE IF c = "T" THEN Passed
                 ELSE IF Formats(x) /\ Formats(value) THEN Failed(<<failure, x, value>>)
                 ELSE Raised

min_market_cap(value, data) ==
    evaluate(data, "market_cap", ">=", value, "market_cap_missing", "market_cap_below_min")
max_pe_ratio(value, data) ==
    evaluate(data, "pe_ratio", "<=", value, "pe_ratio_missing", "pe_ratio_above_max")
min_current_ratio(value, data) ==
    evaluate(data, "current_ratio", ">=", value, "current_ratio_missing", "current_ratio_below_min")
max_debt_to_equity(value, data) ==
    evaluate(data, "debt_to_equity", "<=", value, "debt_to_equity_missing", "debt_to_equity_above_max")
min_revenue_growth(value, data) ==
    evaluate(data, "revenue_growth", ">=", value, "revenue_growth_missing", "revenue_growth_below_min")
min_roe(value, data) ==
    evaluate(data, "roe", ">=", value, "roe_missing", "roe_below_min")
positive_earnings(data) ==
    LET net_income == Get(data, "net_income")
    IN  IF net_income = NoneV THEN Failed(<<"net_income_missing">>)
        ELSE LET c == Compare(net_income, ">", Zero)
             IN  IF c = "E" THEN Raised
                 ELSE IF c = "T" THEN Passed
                 ELSE IF Formats(net_income) THEN Failed(<<"negative_earnings", net_income>>)
                 ELSE Raised

\* criteria.py:264-272, and the call of the closure a builder returned
criterion_map == { "market_cap_min", "pe_max", "current_ratio_min", "debt_to_equity_max",
                   "revenue_growth_min", "positive_earnings", "roe_min" }

criterion_func(key, value, data) ==
    CASE key = "market_cap_min" -> min_market_cap(value, data)
      [] key = "pe_max" -> max_pe_ratio(value, data)
      [] key = "current_ratio_min" -> min_current_ratio(value, data)
      [] key = "debt_to_equity_max" -> max_debt_to_equity(value, data)
      [] key = "revenue_growth_min" -> min_revenue_growth(value, data)
      [] key = "positive_earnings" -> positive_earnings(data)
      [] key = "roe_min" -> min_roe(value, data)

\* the field of the evaluation record each criterion reads
field_of(key) ==
    CASE key = "market_cap_min" -> "market_cap"
      [] key = "pe_max" -> "pe_ratio"
      [] key = "current_ratio_min" -> "current_ratio"
      [] key = "debt_to_equity_max" -> "debt_to_equity"
      [] key = "revenue_growth_min" -> "revenue_growth"
      [] key = "positive_earnings" -> "net_income"
      [] key = "roe_min" -> "roe"

\* a criteria configuration is an insertion-ordered mapping: a sequence of <<key, value>>
ConfigGet(cfg, i) == [key |-> cfg[i][1], value |-> cfg[i][2]]

\* BuildFrom that takes the positive_earnings entry whatever its flag says
RECURSIVE BuildFrom_flagless(_, _)
BuildFrom_flagless(cfg, i) ==
    IF i > Len(cfg) THEN <<>>
    ELSE LET key == ConfigGet(cfg, i).key
             value == ConfigGet(cfg, i).value
         IN  (IF key \in criterion_map THEN << <<key, value>> >> ELSE <<>>)
             \o BuildFrom_flagless(cfg, i + 1)

\* criteria.py:251-289; every builder only captures its threshold, so none raises
RECURSIVE BuildFrom(_, _)
BuildFrom(cfg, i) ==
    IF i > Len(cfg) THEN <<>>
    ELSE LET key == ConfigGet(cfg, i).key
             value == ConfigGet(cfg, i).value
         IN  (IF key \in criterion_map
              THEN IF key = "positive_earnings"
                   THEN (IF Truthy(value) THEN << <<key, value>> >> ELSE <<>>)
                   ELSE << <<key, value>> >>
              ELSE <<>>)
             \o BuildFrom(cfg, i + 1)

build_criteria_functions(criteria_config) == BuildFrom(criteria_config, 1)

(***************************************************************************)
(* criteria.py: parse_inline_criteria.  A str is a sequence of characters. *)
(***************************************************************************)
StrV(text) == [k |-> "text", n |-> 0, d |-> 1, text |-> text]

\* str.find: the first place of character c in s, 0 when there is none
find(s, c) == IF \E i \in 1..Len(s) : s[i] = c
              THEN CHOOSE i \in 1..Len(s) : s[i] = c /\ \A j \in 1..(i - 1) : s[j] # c
              ELSE 0

\* str.split(sep)
RECURSIVE split(_, _)
split(s, sep) ==
    IF find(s, sep) = 0 THEN <<s>>
    ELSE <<SubSeq(s, 1, find(s, sep) - 1)>> \o split(SubSeq(s, find(s, sep) + 1, Len(s)), sep)

\* str.strip()
RECURSIVE strip(_)
strip(s) ==
    IF s # <<>> /\ s[1] = " " THEN strip(Tail(s))
    ELSE IF s # <<>> /\ s[Len(s)] = " " THEN strip(SubSeq(s, 1, Len(s) - 1))
    ELSE s

\* str.lower() on the letters of 'true' and 'false'
lower(s) ==
    [i \in 1..Len(s) |->
        CASE s[i] = "T" -> "t" [] s[i] = "R" -> "r" [] s[i] = "U" -> "u" [] s[i] = "E" -> "e"
          [] s[i] = "F" -> "f" [] s[i] = "A" -> "a" [] s[i] = "L" -> "l" [] s[i] = "S" -> "s"
          [] OTHER -> s[i]]

\* the number a run of decimal digits writes
Digits == {"0", "1", "2", "5"}
RECURSIVE decimal(_)
decimal(s) ==
    IF s = <<>> THEN 0
    ELSE 10 * decimal(SubSeq(s, 1, Len(s) - 1))
         + (CASE s[Len(s)] = "0" -> 0 [] s[Len(s)] = "1" -> 1 [] s[Len(s)] = "2" -> 2 [] s[Len(s)] = "5" -> 5)
RECURSIVE power(_, _)
power(b, e) == IF e = 0 THEN 1 ELSE b * power(b, e - 1)

\* float(text) for a decimal literal: sign, digits, at most one point, a digit at least;
\* [raised, value].  Literals with an exponent, inf, nan or underscores are not drawn.
float(text) ==
    LET signed == text # <<>> /\ text[1] \in {"-", "+"}
        body == IF signed THEN Tail(text) ELSE text
        point == find(body, ".")
        whole == IF point = 0 THEN body ELSE SubSeq(body, 1, point - 1)
        frac == IF point = 0 THEN <<>> ELSE SubSeq(body, point + 1, Len(body))
    IN  IF /\ \A i \in 1..Len(whole) : whole[i] \in Digits
           /\ \A i \in 1..Len(frac) : frac[i] \in Digits
           /\ Len(whole) + Len(frac) > 0
        THEN [raised |-> FALSE,
              value |-> Normal((IF signed /\ text[1] = "-" THEN -1 ELSE 1)
                                  * (decimal(whole) * power(10, Len(frac)) + decimal(frac)),
                               power(10, Len(frac)))]
        ELSE [raised |-> TRUE, value |-> NoneV]

\* coerce that compares the value with 'true' and 'false' as it is written
coerce_cased(value) ==
    IF value = <<"t", "r", "u", "e">> THEN BoolV(TRUE)
    ELSE IF value = <<"f", "a", "l", "s", "e">> THEN BoolV(FALSE)
    ELSE IF ~float(value).raised THEN float(value).value
    ELSE StrV(value)

\* criteria.py:236-246
coerce(value) ==
    IF lower(value) = <<"t", "r", "u", "e">> THEN BoolV(TRUE)
    ELSE IF lower(value) = <<"f", "a", "l", "s", "e">> THEN BoolV(FALSE)
    ELSE IF ~float(value).raised THEN float(value).value
    ELSE StrV(value)

\* criteria[key] = value on an insertion-ordered dict
Assign(criteria, key, value) ==
    IF \E i \in 1..Len(criteria) : criteria[i][1] = key
    THEN [i \in 1..Len(criteria) |-> IF criteria[i][1] = key THEN <<key, value>> ELSE criteria[i]]
    ELSE Append(criteria, <<key, value>>)

\* criteria.py:225-246: the loop over the pieces
RECURSIVE ParsePairs(_, _)
ParsePairs(pairs, i) ==
    IF i = 0 THEN <<>>
    ELSE LET criteria == ParsePairs(pairs, i - 1)
             pair == strip(pairs[i])
             eq == find(pair, "=")
         IN  IF eq = 0 THEN criteria
             ELSE Assign(criteria, strip(SubSeq(pair, 1, eq - 1)),
                         coerce(strip(SubSeq(pair, eq + 1, Len(pair)))))

\* criteria.py:210-248
parse_inline_criteria(criteria_string) ==
    IF criteria_string = <<>> THEN <<>>
    ELSE ParsePairs(split(criteria_string, ","), Len(split(criteria_string, ",")))

(***************************************************************************)
(* fetcher.py: ratios.                                                     *)
(***************************************************************************)
Value(x) == [raised |-> FALSE, value |-> x]
AttributeError == [raised |-> TRUE, value |-> NoneV]

\* FirstAlias that goes on to the next alias when a value is not a number
RECURSIVE FirstAlias_skipping(_, _, _)
FirstAlias_skipping(series, possible_keys, i) ==
    IF i > Len(possible_keys) THEN NoneV
    ELSE IF possible_keys[i] \in DOMAIN series.data
              /\ series.data[possible_keys[i]].k \in {"num", "bool"}
         THEN Rat(series.data[possible_keys[i]].n, series.data[possible_keys[i]].d)
         ELSE FirstAlias_skipping(series, possible_keys, i + 1)

\* fetcher.py:244-255: the loop over the aliases
RECURSIVE FirstAlias(_, _, _)
FirstAlias(series, possible_keys, i) ==
    IF i > Len(possible_keys) THEN NoneV
    ELSE IF possible_keys[i] \in DOMAIN series.data
         THEN LET value == series.data[possible_keys[i]]
              IN  IF value.k \in {"nan", "none"} THEN NoneV
                  ELSE IF value.k \in {"num", "bool"} THEN Rat(value.n, value.d)
                  ELSE NoneV
         ELSE FirstAlias(series, possible_keys, i + 1)

\* fetcher.py:230-255; an object that is not a Series has no .empty
_get_value(series, possible_keys) ==
    IF series.kind # "Series" THEN AttributeError
    ELSE IF DOMAIN series.data = {} THEN Value(NoneV)
    ELSE Value(FirstAlias(series, possible_keys, 1))

\* Ratio that reports zero where it cannot divide
Ratio_zero(num, den) ==
    IF num # NoneV /\ den # NoneV /\ den.n # 0 THEN Div(num, den) ELSE Zero

Ratio(num, den) ==
    IF num # NoneV /\ den # NoneV /\ den.n # 0 THEN Div(num, den) ELSE NoneV

\* fetcher.py:161-228, for a financial_data that is not None
calculate_ratios(fd) ==
    LET income == GetOr(fd, "income_statement", EmptySeries)
        balance == GetOr(fd, "balance_sheet", EmptySeries)
        prev_income == GetOr(fd, "prev_income_statement", EmptySeries)
        current_assets == _get_value(balance, <<"Total Current Assets", "Current Assets">>)
        current_liabilities == _get_value(balance, <<"Total Current Liabilities", "Current Liabilities">>)
        total_debt == _get_value(balance, <<"Total Debt", "Total Liabilities Net Minority Interest">>)
        shareholders_equity == _get_value(balance, <<"Total Stockholders Equity", "Stockholders Equity">>)
        net_income == _get_value(income, <<"Net Income", "Net Income Common Stockholders">>)
        current_revenue == _get_value(income, <<"Total Revenue", "Revenue">>)
        prev_revenue == _get_value(prev_income, <<"Total Revenue", "Revenue">>)
    IN  IF current_assets.raised \/ net_income.raised \/ prev_revenue.raised
        THEN [raised |-> TRUE, value |-> <<>>]
        ELSE [raised |-> FALSE, value |->
                [ current_ratio |-> Ratio(current_assets.value, current_liabilities.value),
                  debt_to_equity |-> Ratio(total_debt.value, shareholders_equity.value),
                  roe |-> Ratio(net_income.value, shareholders_equity.value),
                  revenue_growth |->
                      IF current_revenue.value # NoneV /\ prev_revenue.value # NoneV
                         /\ prev_revenue.value.n # 0
                      THEN Div(Sub(current_revenue.value, prev_revenue.value), prev_revenue.value)
                      ELSE NoneV,
                  net_income |-> net_income.value ]]

(***************************************************************************)
(* screener.py: StockScreener.                                             *)
(***************************************************************************)
\* a text cell: the characters of a str; a list cell keeps its items
Str(tokens) == [type |-> "str", text |-> tokens]
List(items) == [type |-> "list", text |-> items]

\* ', '.join(items)
RECURSIVE join(_, _)
join(sep, items) ==
    IF items = <<>> THEN <<>>
    ELSE IF Len(items) = 1 THEN <<items[1]>>
    ELSE <<items[1], <<sep>>>> \o join(sep, Tail(items))

\* EvaluateAll that logs a raising criterion without recording it as failed
RECURSIVE EvaluateAll_unrecorded(_, _, _)
EvaluateAll_unrecorded(criteria_functions, evaluation_data, i) ==
    IF i = 0 THEN [passed_count |-> 0, failed_criteria |-> <<>>]
    ELSE LET before == EvaluateAll_unrecorded(criteria_functions, evaluation_data, i - 1)
             criterion_name == criteria_functions[i][1]
             outcome == criterion_func(criterion_name, criteria_functions[i][2], evaluation_data)
         IN  IF outcome.raised
             THEN before
             ELSE IF outcome.passed
             THEN [before EXCEPT !.passed_count = @ + 1]
             ELSE [before EXCEPT !.failed_criteria = Append(@, <<criterion_name, ": ">> \o outcome.reason)]

\* EvaluateAll whose loop ends at the first criterion that raises
RECURSIVE EvaluateAll_abort(_, _, _)
EvaluateAll_abort(criteria_functions, evaluation_data, i) ==
    IF i = 0 THEN [passed_count |-> 0, failed_criteria |-> <<>>]
    ELSE LET before == EvaluateAll_abort(criteria_functions, evaluation_data, i - 1)
             criterion_name == criteria_functions[i][1]
             outcome == criterion_func(criterion_name, criteria_functions[i][2], evaluation_data)
             aborted == \E j \in 1..(i - 1) :
                            criterion_func(criteria_functions[j][1], criteria_functions[j][2],
                                           evaluation_data).raised
         IN  IF aborted THEN before
             ELSE IF outcome.raised
             THEN [before EXCEPT !.failed_criteria = Append(@, <<criterion_name, ": ", "evaluation_error">>)]
             ELSE IF outcome.passed
             THEN [before EXCEPT !.passed_count = @ + 1]
             ELSE [before EXCEPT !.failed_criteria = Append(@, <<criterion_name, ": ">> \o outcome.reason)]

\* EvaluateAll that puts each new failure in front of the list
RECURSIVE EvaluateAll_prepend(_, _, _)
EvaluateAll_prepend(criteria_functions, evaluation_data, i) ==
    IF i = 0 THEN [passed_count |-> 0, failed_criteria |-> <<>>]
    ELSE LET before == EvaluateAll_prepend(criteria_functions, evaluation_data, i - 1)
             criterion_name == criteria_functions[i][1]
             outcome == criterion_func(criterion_name, criteria_functions[i][2], evaluation_data)
         IN  IF outcome.raised
             THEN [before EXCEPT !.failed_criteria = << <<criterion_name, ": ", "evaluation_error">> >> \o @]
             ELSE IF outcome.passed
             THEN [before EXCEPT !.passed_count = @ + 1]
             ELSE [before EXCEPT !.failed_criteria = << <<criterion_name, ": ">> \o outcome.reason >> \o @]

\* screener.py:98-111: [passed_count, failed_criteria] after the first i criteria
RECURSIVE EvaluateAll(_, _, _)
EvaluateAll(criteria_functions, evaluation_data, i) ==
    IF i = 0 THEN [passed_count |-> 0, failed_criteria |-> <<>>]
    ELSE LET before == EvaluateAll(criteria_functions, evaluation_data, i - 1)
             criterion_name == criteria_functions[i][1]
             outcome == criterion_func(criterion_name, criteria_functions[i][2], evaluation_data)
         IN  IF outcome.raised
             THEN [before EXCEPT !.failed_criteria = Append(@, <<criterion_name, ": ", "evaluation_error">>)]
             ELSE IF outcome.passed
             THEN [before EXCEPT !.passed_count = @ + 1]
             ELSE [before EXCEPT !.failed_criteria = Append(@, <<criterion_name, ": ">> \o outcome.reason)]

\* overall_status that also wants at least one criterion passed
overall_status_some(passed_count, total_criteria) ==
    IF passed_count > 0 /\ passed_count = total_criteria THEN "PASS" ELSE "FAIL"

\* screener.py:115
overall_status(passed_count, total_criteria) ==
    IF passed_count = total_criteria THEN "PASS" ELSE "FAIL"

\* fetch_failed_result with an empty company name
fetch_failed_result_unnamed(t) ==
    [ ticker |-> t,
      company_name |-> <<>>,
      status |-> "FAIL",
      error |-> Str(<<"data_fetch_failed">>),
      passed_criteria |-> Num(0),
      failed_criteria |-> List(<< <<"data_unavailable">> >>) ]

\* screener.py:73-82
fetch_failed_result(t) ==
    [ ticker |-> t,
      company_name |-> t,
      status |-> "FAIL",
      error |-> Str(<<"data_fetch_failed">>),
      passed_criteria |-> Num(0),
      failed_criteria |-> List(<< <<"data_unavailable">> >>) ]

\* screen_fetched that copies the cache tag of the fetched dict into its result
screen_fetched_tagged(criteria_functions, t, fd) ==
    LET ratios == calculate_ratios(fd)
    IN  IF ratios.raised THEN [raised |-> TRUE, value |-> <<>>]
        ELSE LET evaluation_data ==
                     [ market_cap |-> Get(fd, "market_cap"),
                       pe_ratio |-> Get(fd, "pe_ratio"),
                       current_ratio |-> Get(ratios.value, "current_ratio"),
                       debt_to_equity |-> Get(ratios.value, "debt_to_equity"),
                       revenue_growth |-> Get(ratios.value, "revenue_growth"),
                       net_income |-> Get(ratios.value, "net_income"),
                       roe |-> Get(ratios.value, "roe") ]
                 done == EvaluateAll(criteria_functions, evaluation_data, Len(criteria_functions))
                 total_criteria == Len(criteria_functions)
                 status == overall_status(done.passed_count, total_criteria)
             IN  [raised |-> FALSE, value |->
                    [ ticker |-> t,
                      company_name |-> GetOr(fd, "company_name", t),
                      market_cap |-> Get(fd, "market_cap"),
                      pe_ratio |-> Get(fd, "pe_ratio"),
                      current_ratio |-> Get(ratios.value, "current_ratio"),
                      debt_to_equity |-> Get(ratios.value, "debt_to_equity"),
                      revenue_growth |-> Get(ratios.value, "revenue_growth"),
                      roe |-> Get(ratios.value, "roe"),
                      net_income |-> Get(ratios.value, "net_income"),
                      passed_criteria |-> Num(done.passed_count),
                      total_criteria |-> Num(total_criteria),
                      failed_criteria |-> Str(join(", ", done.failed_criteria)),
                      status |-> status,
                      cache_hit |-> IF "_cache_hit" \in DOMAIN fd THEN BoolV(TRUE) ELSE NoneV ]]

\* screener.py:84-136: screen_ticker once it holds the fetched dict fd
screen_fetched(criteria_functions, t, fd) ==
    LET ratios == calculate_ratios(fd)
    IN  IF ratios.raised THEN [raised |-> TRUE, value |-> <<>>]
        ELSE LET evaluation_data ==
                     [ market_cap |-> Get(fd, "market_cap"),
                       pe_ratio |-> Get(fd, "pe_ratio"),
                       current_ratio |-> Get(ratios.value, "current_ratio"),
                       debt_to_equity |-> Get(ratios.value, "debt_to_equity"),
                       revenue_growth |-> Get(ratios.value, "revenue_growth"),
                       net_income |-> Get(ratios.value, "net_income"),
                       roe |-> Get(ratios.value, "roe") ]
                 done == EvaluateAll(criteria_functions, evaluation_data, Len(criteria_functions))
                 total_criteria == Len(criteria_functions)
                 status == overall_status(done.passed_count, total_criteria)
             IN  [raised |-> FALSE, value |->
                    [ ticker |-> t,
                      company_name |-> GetOr(fd, "company_name", t),
                      market_cap |-> Get(fd, "market_cap"),
                      pe_ratio |-> Get(fd, "pe_ratio"),
                      current_ratio |-> Get(ratios.value, "current_ratio"),
                      debt_to_equity |-> Get(ratios.value, "debt_to_equity"),
                      revenue_growth |-> Get(ratios.value, "revenue_growth"),
                      roe |-> Get(ratios.value, "roe"),
                      net_income |-> Get(ratios.value, "net_income"),
                      passed_criteria |-> Num(done.passed_count),
                      total_criteria |-> Num(total_criteria),
                      failed_criteria |-> Str(join(", ", done.failed_criteria)),
                      status |-> status ]]

\* screen_ticker without the check for None: financial_data.get raises on None
screen_ticker_unguarded(criteria_functions, t, fetched) ==
    IF fetched = NoData THEN [raised |-> TRUE, value |-> <<>>]
    ELSE screen_fetched(criteria_functions, t, fetched[1])

\* screener.py:47-136: what screen_ticker does with the value get_financial_data returned
screen_ticker(criteria_functions, t, fetched) ==
    IF fetched = NoData THEN [raised |-> FALSE, value |-> fetch_failed_result(t)]
    ELSE screen_fetched(criteria_functions, t, fetched[1])

\* screener.py:155-164
screening_error_result(t) ==
    [ ticker |-> t,
      company_name |-> t,
      status |-> "FAIL",
      error |-> Str(<<"AttributeError">>),
      passed_criteria |-> Num(0),
      failed_criteria |-> Str(<< <<"screening_error">> >>) ]

\* screener.py:167-184: the DataFrame of the collected rows
SuccessKeys == << "ticker", "company_name", "market_cap", "pe_ratio", "current_ratio",
                  "debt_to_equity", "revenue_growth", "roe", "net_income", "passed_criteria",
                  "total_criteria", "failed_criteria", "status" >>
FailureKeys == << "ticker", "company_name", "status", "error", "passed_criteria", "failed_criteria" >>
column_order == << "ticker", "company_name", "market_cap", "pe_ratio", "current_ratio",
                   "debt_to_equity", "revenue_growth", "roe", "passed_criteria",
                   "total_criteria", "failed_criteria", "status" >>

Range(seq) == {seq[i] : i \in 1..Len(seq)}
Keys(row) == IF "error" \in DOMAIN row THEN FailureKeys ELSE SuccessKeys
SelectNotIn(seq, set) == SelectSeq(seq, LAMBDA c : c \notin set)

\* columns of pd.DataFrame(results): the keys in order of first appearance
RECURSIVE FirstAppearance(_, _)
FirstAppearance(rows, i) ==
    IF i = 0 THEN <<>>
    ELSE LET before == FirstAppearance(rows, i - 1)
         IN  before \o SelectNotIn(Keys(rows[i]), Range(before))

\* to_frame followed by drop_duplicates on the ticker column
to_frame_unique(rows) ==
    LET natural == FirstAppearance(rows, Len(rows))
        other_cols == SelectNotIn(natural, Range(column_order))
        columns == column_order \o other_cols
        first == {i \in 1..Len(rows) : \A j \in 1..(i - 1) : rows[j]["ticker"] # rows[i]["ticker"]}
        kept == SelectSeq([i \in 1..Len(rows) |-> <<i, rows[i]>>], LAMBDA e : e[1] \in first)
    IN  [ columns |-> columns,
          rows |-> [i \in 1..Len(kept) |-> [c \in Range(columns) |-> Get(kept[i][2], c)]] ]

to_frame(rows) ==
    LET natural == FirstAppearance(rows, Len(rows))
        other_cols == SelectNotIn(natural, Range(column_order))
        columns == column_order \o other_cols
    IN  [ columns |-> columns,
          rows |-> [i \in 1..Len(rows) |-> [c \in Range(columns) |-> Get(rows[i], c)]] ]

NoFrame == [columns |-> <<>>, rows |-> <<>>]

\* filter_by_criteria that keeps every row that did not fail
filter_by_criteria_lenient(df) ==
    IF "status" \notin Range(df.columns) THEN [df |-> df, filtered |-> df]
    ELSE [df |-> df,
          filtered |-> [columns |-> df.columns,
                        rows |-> SelectSeq(df.rows, LAMBDA row : row["status"] # "FAIL")]]

\* screener.py:188-205: the frame handed in as it is after the call, and the frame returned
filter_by_criteria(df) ==
    IF "status" \notin Range(df.columns) THEN [df |-> df, filtered |-> df]
    ELSE [df |-> df,
          filtered |-> [columns |-> df.columns,
                        rows |-> SelectSeq(df.rows, LAMBDA row : row["status"] = "PASS")]]

(***************************************************************************)
(* StockScreener state.                                                    *)
(***************************************************************************)
VARIABLES
    criteria_config,     \* self.criteria_config
    criteria_functions,  \* self.criteria_functions
    op,                  \* the public method running or last run
    spc,                 \* position inside screen_ticker / screen_list
    tickers,             \* the argument of screen_list (or the one ticker of screen_ticker)
    results,             \* the rows collected so far
    fetched,             \* what get_financial_data returned for each collected row
    outcome,             \* what the finished method returned or raised
    probe                \* a predicate applied to one value (criteria checks)

screenVars == <<criteria_config, criteria_functions, op, spc, tickers, results, fetched, outcome>>
vars == <<fetcherVars, screenVars, probe>>

DefaultRetries == 3

ConfigNone == <<>>
ConfigTwo == << <<"market_cap_min", Num(10)>>, <<"pe_max", Num(25)>> >>
ConfigMixed == << <<"positive_earnings", BoolV(TRUE)>>, <<"unknown_key", Num(1)>>,
                  <<"current_ratio_min", Rat(3, 2)>>, <<"roe_min", TextV>> >>
\* thresholds that are no numbers (a quoted value in the YAML file) between numeric ones
ConfigRaising == << <<"roe_min", TextV>>, <<"pe_max", Num(10)>>, <<"market_cap_min", TextV>>,
                    <<"current_ratio_min", Num(1)>> >>
Configs == {ConfigNone, ConfigTwo, ConfigMixed, ConfigRaising}

\* the ticker lists handed to screen_list: empty, single, ordered pairs, a repeated ticker
BatchInputs == { <<>>, << <<"A">> >>, << <<"B">> >>, << <<"A">>, <<"B">> >>, << <<"B">>, <<"A">> >>,
                 << <<"A">>, <<"A">> >> }

\* a dict written by something else than this fetcher: its statements are no Series
LegacyDict ==
    [ ticker |-> <<"B">>, company_name |-> <<"O", "l", "d">>, market_cap |-> Num(20),
      pe_ratio |-> Num(15), income_statement |-> [kind |-> "dict", data |-> <<>>] ]
EmptyStore == [p \in CachePaths |-> NoFile]
LegacyStore == [EmptyStore EXCEPT ![_cache_path(<<"B">>)] = File(Epoch - 1, pickle_dump(LegacyDict))]
\* entries an earlier run of the program left behind: one recent, one old
EarlierAnswer == [raises |-> FALSE, info |-> InfoFull, financials |-> IncomeTwoYears, balance_sheet |-> BalanceFull]
RecentStore == [EmptyStore EXCEPT ![_cache_path(<<"A">>)] =
                    File(Epoch - 1, pickle_dump(financial_data(<<"A">>, EarlierAnswer)))]
OldStore == [EmptyStore EXCEPT ![_cache_path(<<"A">>)] =
                    File(0, pickle_dump(financial_data(<<"A">>, EarlierAnswer)))]

\* files that are no pickled dict: a pickled list for A, a truncated stream for B
ForeignStore == [EmptyStore EXCEPT ![_cache_path(<<"A">>)] = File(Epoch, << <<"LIST">>, <<"STOP">> >>),
                                   ![_cache_path(<<"B">>)] = File(Epoch, << <<"DICT">>, <<"ITEM">> >>)]

NoOutcome == [raised |-> FALSE, value |-> <<>>, frame |-> NoFrame]
NoProbe == [key |-> "", value |-> NoneV, x |-> NoneV, out |-> Passed]

ScreenerInit ==
    /\ criteria_config \in Configs
    /\ criteria_functions = build_criteria_functions(criteria_config)
    /\ op = "none" /\ spc = "idle"
    /\ tickers = <<>> /\ results = <<>> /\ fetched = <<>>
    /\ outcome = NoOutcome

Quiet == pc \in {"idle", "returned"} /\ spc \in {"idle", "done"}
ClearScreen ==
    /\ tickers' = <<>> /\ results' = <<>> /\ fetched' = <<>> /\ outcome' = NoOutcome
    /\ UNCHANGED <<criteria_config, criteria_functions>>

\* a caller invokes fetcher.get_financial_data(t, r) directly
Fetch(t, r) ==
    /\ Quiet
    /\ get_financial_data(t, r)
    /\ op' = "get_financial_data" /\ spc' = "idle"
    /\ ClearScreen
    /\ UNCHANGED probe

FetchRateLimit == RateLimit /\ UNCHANGED <<screenVars, probe>>
FetchAttempt(ans, dur, wr) == Attempt(ans, dur, wr) /\ UNCHANGED <<screenVars, probe>>

Pass ==
    /\ Quiet
    /\ Tick
    /\ op' = "none" /\ spc' = "idle"
    /\ ClearScreen
    /\ UNCHANGED probe

\* screener.py:47-71: screen_ticker(t) up to the cache check of its fetch.
\* cli.py:177-191 and app.py:352-354 build a fetcher and a screener for each run and
\* call one method on them, so a screener method starts from the constructed state.
ScreenTicker(t) ==
    /\ Quiet /\ op = "none"
    /\ now <= Epoch + MaxTime
    /\ Enter(t, DefaultRetries)
    /\ op' = "screen_ticker" /\ spc' = "fetching"
    /\ tickers' = <<t>> /\ results' = <<>> /\ fetched' = <<>> /\ outcome' = NoOutcome
    /\ UNCHANGED <<criteria_config, criteria_functions, probe>>

\* screener.py:73-136: the rest of screen_ticker once its fetch returned
ScreenTickerReturn ==
    /\ op = "screen_ticker" /\ spc = "fetching" /\ pc = "returned"
    /\ LET r == screen_ticker(criteria_functions, tickers[1], ret)
       IN  /\ outcome' = [raised |-> r.raised, value |-> r.value, frame |-> NoFrame]
           /\ results' = IF r.raised THEN <<>> ELSE <<r.value>>
    /\ fetched' = <<ret>>
    /\ spc' = "done"
    /\ UNCHANGED <<fetcherVars, criteria_config, criteria_functions, op, tickers, probe>>

\* screener.py:138-153: screen_list(ts) up to the cache check of the first fetch
ScreenList(ts) ==
    /\ Quiet /\ op = "none"
    /\ now <= Epoch + MaxTime
    /\ op' = "screen_list"
    /\ tickers' = ts /\ results' = <<>> /\ fetched' = <<>>
    /\ IF ts = <<>>
       THEN /\ spc' = "done"
            /\ outcome' = [raised |-> FALSE, value |-> <<>>, frame |-> to_frame(<<>>)]
            /\ UNCHANGED fetcherVars
       ELSE /\ spc' = "fetching"
            /\ outcome' = NoOutcome
            /\ Enter(ts[1], DefaultRetries)
    /\ UNCHANGED <<criteria_config, criteria_functions, probe>>

\* the row screen_list appends for ticker t whose fetch returned `got`
row_for(t, got) ==
    LET r == screen_ticker(criteria_functions, t, got)
    IN  IF r.raised THEN screening_error_result(t) ELSE r.value

\* screener.py:151-186: one turn of the loop after the fetch returned: the row is
\* appended, then the next ticker is entered or the frame is built and returned
ScreenListStep ==
    /\ op = "screen_list" /\ spc = "fetching" /\ pc = "returned"
    /\ results' = Append(results, row_for(tickers[Len(results) + 1], ret))
    /\ fetched' = Append(fetched, ret)
    /\ IF Len(results') < Len(tickers)
       THEN /\ Enter(tickers[Len(results') + 1], DefaultRetries)
            /\ UNCHANGED <<spc, outcome>>
       ELSE /\ spc' = "done"
            /\ outcome' = [raised |-> FALSE, value |-> <<>>, frame |-> to_frame(results')]
            /\ UNCHANGED fetcherVars
    /\ UNCHANGED <<criteria_config, criteria_functions, op, tickers, probe>>

\* the configurations handed to the constructor: a dict has each key once
ConfigKeys == {"market_cap_min", "positive_earnings", "unknown_key", "pe_max"}
ConfigValues == {Num(1), BoolV(TRUE), BoolV(FALSE)}
ConfigInputs ==
    { cfg \in UNION {[1..n -> ConfigKeys \X ConfigValues] : n \in 0..MaxConfigLen} :
         \A i, j \in DOMAIN cfg : cfg[i][1] = cfg[j][1] => i = j }

\* screener.py:26-45: StockScreener(criteria_config, fetcher)
Construct(cfg) ==
    /\ Quiet
    /\ criteria_config' = cfg
    /\ criteria_functions' = build_criteria_functions(cfg)
    /\ op' = "none" /\ spc' = "idle"
    /\ tickers' = <<>> /\ results' = <<>> /\ fetched' = <<>> /\ outcome' = NoOutcome
    /\ UNCHANGED <<fetcherVars, probe>>

(***************************************************************************)
(* Applying one predicate to one value.                                    *)
(***************************************************************************)
Thresholds == {Rat(a, b) : a \in -1..2, b \in 1..2}
FieldValues == {NoneV} \cup {Rat(a, b) : a \in -2..3, b \in 1..2}

\* the evaluation record whose field for `key` holds x (absent: the key maps to None)
record_with(key, x) == (field_of(key) :> x)

Probe(key, value, x) ==
    /\ probe' = [key |-> key, value |-> value, x |-> x,
                 out |-> criterion_func(key, value, record_with(key, x))]
    /\ UNCHANGED <<fetcherVars, screenVars>>

(***************************************************************************)
(* Applying calculate_ratios and _get_value to one argument.               *)
(***************************************************************************)
\* what a line item holds; a key that is left out is a missing line item
LineValues == {NaNV, Num(0), Num(2), Num(-3)}
Statements(keys) == {Series(f) : f \in UNION {[K -> LineValues] : K \in SUBSET keys}}

\* fetched dicts: each operand of each ratio missing, not a number, zero or a number
RatioInputs ==
    { [ ticker |-> <<"A">>, balance_sheet |-> b, income_statement |-> i, prev_income_statement |-> p ] :
        b \in Statements({"Current Assets", "Total Current Liabilities", "Total Debt", "Stockholders Equity"}),
        i \in Statements({"Net Income", "Revenue"}),
        p \in Statements({"Total Revenue"}) }

\* statements for one lookup: the first alias, the second, and another line
CurrentAssetsKeys == <<"Total Current Assets", "Current Assets">>
LookupInputs ==
    { Series(f) : f \in UNION {[K -> LineValues \cup {TextV, BoolV(TRUE), Rat(5, 2)}] :
                                  K \in SUBSET {"Total Current Assets", "Current Assets", "Inventory"}} }

\* the argument waits in probe.x; the call stores what it returned in probe.out
Argument(name, x) == [key |-> name, value |-> NoneV, x |-> x, out |-> Value(NoneV)]

\* fetcher.py:161-228
CalculateRatios ==
    /\ op = "none" /\ probe.key = "calculate_ratios"
    /\ probe' = [probe EXCEPT !.out = calculate_ratios(probe.x)]
    /\ op' = "calculate_ratios" /\ spc' = "done"
    /\ UNCHANGED <<fetcherVars, criteria_config, criteria_functions, tickers, results, fetched, outcome>>

\* fetcher.py:230-255, called as fetcher.py:183 calls it
GetValue ==
    /\ op = "none" /\ probe.key = "_get_value"
    /\ probe' = [probe EXCEPT !.out = _get_value(probe.x, CurrentAssetsKeys)]
    /\ op' = "_get_value" /\ spc' = "done"
    /\ UNCHANGED <<fetcherVars, criteria_config, criteria_functions, tickers, results, fetched, outcome>>

\* frames of results: rows with a status, and frames that have no status column
Frames(rowset, columns) ==
    { [columns |-> columns, rows |-> rows] : rows \in UNION {[1..n -> rowset] : n \in 0..MaxRows} }
FilterInputs ==
    Frames({[ticker |-> t, status |-> st] : t \in Tickers, st \in {"PASS", "FAIL", "ERROR"}},
           <<"ticker", "status">>)
    \cup Frames({[ticker |-> t] : t \in Tickers}, <<"ticker">>)

\* screener.py:188-205
FilterByCriteria ==
    /\ op = "none" /\ probe.key = "filter_by_criteria"
    /\ probe' = [probe EXCEPT !.x = filter_by_criteria(probe.x).df,
                              !.out = Value(filter_by_criteria(probe.x).filtered)]
    /\ op' = "filter_by_criteria" /\ spc' = "done"
    /\ UNCHANGED <<fetcherVars, criteria_config, criteria_functions, tickers, results, fetched, outcome>>

\* the pieces an inline criteria string is made of, each with the entry Python makes of it
\* (has: the piece holds '='; key and value: the entry)
Piece(text, has, key, value) == [text |-> text, has |-> has, key |-> key, value |-> value]
Pieces ==
    { Piece(<<"a", "=", "1">>, TRUE, <<"a">>, Num(1)),
      Piece(<<" ", "b", " ", "=", " ", "T", "R", "U", "E", " ">>, TRUE, <<"b">>, BoolV(TRUE)),
      Piece(<<"a", "=", "f", "a", "l", "s", "e">>, TRUE, <<"a">>, BoolV(FALSE)),
      Piece(<<"c">>, FALSE, <<>>, NoneV),
      Piece(<<"b", "=", "x">>, TRUE, <<"b">>, StrV(<<"x">>)),
      Piece(<<"c", "=", "-", "2", ".", "5">>, TRUE, <<"c">>, Rat(-5, 2)),
      Piece(<<>>, FALSE, <<>>, NoneV),
      Piece(<<"a", "=", "1", "=", "2">>, TRUE, <<"a">>, StrV(<<"1", "=", "2">>)),
      Piece(<<"c", "=">>, TRUE, <<"c">>, StrV(<<>>)) }
PieceLists == UNION {[1..n -> Pieces] : n \in 0..MaxPairs}

\* ','.join of the pieces' texts
RECURSIVE JoinPieces(_)
JoinPieces(pieces) ==
    IF pieces = <<>> THEN <<>>
    ELSE IF Len(pieces) = 1 THEN pieces[1].text
    ELSE pieces[1].text \o <<",">> \o JoinPieces(Tail(pieces))

\* criteria.py:210-248; probe.value keeps the pieces the string was joined from
ParseInlineCriteria ==
    /\ op = "none" /\ probe.key = "parse_inline_criteria"
    /\ probe' = [probe EXCEPT !.out = Value(parse_inline_criteria(probe.x))]
    /\ op' = "parse_inline_criteria" /\ spc' = "done"
    /\ UNCHANGED <<fetcherVars, criteria_config, criteria_functions, tickers, results, fetched, outcome>>

(***************************************************************************)
(* Specifications.                                                         *)
(***************************************************************************)
FixedScreener ==
    /\ criteria_config = ConfigTwo
    /\ criteria_functions = build_criteria_functions(criteria_config)
    /\ op = "none" /\ spc = "idle"
    /\ tickers = <<>> /\ results = <<>> /\ fetched = <<>>
    /\ outcome = NoOutcome

FetchNext ==
    \/ \E t \in Tickers, r \in RetryArgs : Fetch(t, r)
    \/ FetchRateLimit
    \/ \E ans \in ProviderAnswers, dur \in Durations, wr \in WriteOutcomes : FetchAttempt(ans, dur, wr)
    \/ Pass

\* the fetcher without its cache, under every delay
RetryInit == FetcherInit /\ ~use_cache /\ FixedScreener /\ probe = NoProbe
SpecRetry == RetryInit /\ [][FetchNext]_vars

\* the fetcher with its cache
CacheInit == FetcherInit /\ use_cache /\ delay_between_requests = 0 /\ FixedScreener /\ probe = NoProbe
SpecCache == CacheInit /\ [][FetchNext]_vars

\* the fetcher with its cache and the longest delay between requests
LimitInit == FetcherInit /\ use_cache /\ delay_between_requests = MaxDelay /\ cache_ttl_seconds = 2
             /\ FixedScreener /\ probe = NoProbe
SpecLimit == LimitInit /\ [][FetchNext]_vars

\* the fetcher over a cache directory that holds unusable files
ForeignInit ==
    /\ now = Epoch
    /\ delay_between_requests = 0
    /\ cache_ttl_seconds = 2
    /\ use_cache = TRUE
    /\ _last_request_time = 0
    /\ cache = ForeignStore
    /\ written = [p \in CachePaths |-> NothingWritten]
    /\ pc = "idle"
    /\ ticker = <<>> /\ retries = 0 /\ attempt = 0
    /\ ret = NoData /\ src = "none" /\ hitAge = -1
    /\ calls = 0 /\ outcomes = <<>> /\ slept = <<>>
    /\ prevCall = -1 /\ lastGap = -1
    /\ FixedScreener /\ probe = NoProbe
SpecForeign == ForeignInit /\ [][FetchNext]_vars

\* the fetcher, with or without its cache, over a directory that holds entries already:
\* none, a recent one, an old one, a dict of another writer, or unusable files
FrameInit ==
    /\ now = Epoch
    /\ delay_between_requests = 0
    /\ cache_ttl_seconds = 2
    /\ use_cache \in BOOLEAN
    /\ _last_request_time = 0
    /\ cache \in {EmptyStore, RecentStore, OldStore, LegacyStore, ForeignStore}
    /\ written = [p \in CachePaths |-> NothingWritten]
    /\ pc = "idle"
    /\ ticker = <<>> /\ retries = 0 /\ attempt = 0
    /\ ret = NoData /\ src = "none" /\ hitAge = -1
    /\ calls = 0 /\ outcomes = <<>> /\ slept = <<>>
    /\ prevCall = -1 /\ lastGap = -1
    /\ FixedScreener /\ probe = NoProbe
SpecFrame == FrameInit /\ [][FetchNext]_vars

\* the fetcher called with ticker strings that differ in case and in punctuation
NamesNext ==
    \/ \E t \in Symbols : Fetch(t, 1)
    \/ FetchRateLimit
    \/ \E ans \in ProviderAnswers, dur \in Durations, wr \in WriteOutcomes : FetchAttempt(ans, dur, wr)
    \/ Pass
SpecNames == LimitInit /\ [][NamesNext]_vars

ScreenNext ==
    \/ \E t \in Tickers : ScreenTicker(t)
    \/ ScreenTickerReturn
    \/ \E ts \in BatchInputs : ScreenList(ts)
    \/ ScreenListStep
    \/ FetchRateLimit
    \/ \E ans \in ProviderAnswers, dur \in Durations, wr \in WriteOutcomes : FetchAttempt(ans, dur, wr)

ScreenInit ==
    /\ now = Epoch
    /\ delay_between_requests = 0
    /\ cache_ttl_seconds = 2
    /\ use_cache \in BOOLEAN
    /\ _last_request_time = 0
    /\ cache \in IF use_cache THEN {EmptyStore, LegacyStore, RecentStore, OldStore} ELSE {EmptyStore}
    /\ written = [p \in CachePaths |->
                     IF cache \in {RecentStore, OldStore} /\ cache[p].exists
                     THEN [data |-> Some(financial_data(<<"A">>, EarlierAnswer)), at |-> cache[p].st_mtime,
                           replaced |-> FALSE]
                     ELSE NothingWritten]
    /\ pc = "idle"
    /\ ticker = <<>> /\ retries = 0 /\ attempt = 0
    /\ ret = NoData /\ src = "none" /\ hitAge = -1
    /\ calls = 0 /\ outcomes = <<>> /\ slept = <<>>
    /\ prevCall = -1 /\ lastGap = -1
    /\ ScreenerInit
    /\ probe = NoProbe
SpecScreen == ScreenInit /\ [][ScreenNext]_vars

CriteriaNext == \E key \in criterion_map, value \in Thresholds, x \in FieldValues : Probe(key, value, x)
CriteriaInit == FetcherInit /\ ~use_cache /\ delay_between_requests = 0 /\ cache_ttl_seconds = 1
                /\ FixedScreener /\ probe = NoProbe
SpecCriteria == CriteriaInit /\ [][CriteriaNext]_vars

BuildNext == \E cfg \in ConfigInputs : Construct(cfg)
SpecBuild == CriteriaInit /\ [][BuildNext]_vars

\* one call of a function that reads its argument only
PureInit ==
    /\ FetcherInit /\ ~use_cache /\ delay_between_requests = 0 /\ cache_ttl_seconds = 1
    /\ FixedScreener
    /\ probe \in {Argument("calculate_ratios", fd) : fd \in RatioInputs}
                 \cup {Argument("_get_value", series) : series \in LookupInputs}
                 \cup {Argument("filter_by_criteria", df) : df \in FilterInputs}
                 \cup {[key |-> "parse_inline_criteria", value |-> pieces, x |-> JoinPieces(pieces),
                        out |-> Value(NoneV)] : pieces \in PieceLists}
PureNext == CalculateRatios \/ GetValue \/ FilterByCriteria \/ ParseInlineCriteria
SpecPure == PureInit /\ [][PureNext]_vars

(***************************************************************************)
(* Two processes on one cache file.  Each builds its own DataFetcher over  *)
(* the same cache directory (cli.py:177, app.py:352).  open(path, 'wb')    *)
(* truncates the file and pickle.dump fills it piece by piece;             *)
(* pickle.load reads the open file piece by piece from its own offset.     *)
(* probe holds the local state of both: value is the writer, x the reader, *)
(* out the payloads whose dump has written its last piece.                 *)
(***************************************************************************)
RacePath == _cache_path(<<"A">>)
RacePayloads == {financial_data(<<"A">>, ans) : ans \in {a \in ProviderAnswers : Kind(a) = "ok"}}
IdleWriter == [pc |-> "idle", frames |-> <<>>, pos |-> 0]
IdleReader == [pc |-> "idle", got |-> <<>>, st_mtime |-> 0, ret |-> NoData]
\* pickle.load stops reading at the stop frame
Stopped(got) == IF got = <<>> THEN FALSE ELSE got[Len(got)] = <<"STOP">>
RaceFrame == <<now, config, _last_request_time, pc, frame, ret, src, hitAge, history, screenVars>>

\* fetcher.py:73-74: open(cache_path, 'wb') leaves an empty file
WriteCacheOpen(data) ==
    /\ probe.value.pc = "idle"
    /\ cache' = [cache EXCEPT ![RacePath] = File(now, <<>>)]
    /\ probe' = [probe EXCEPT !.value = [pc |-> "dumping", frames |-> pickle_dump(data), pos |-> 0]]
    /\ UNCHANGED RaceFrame

\* fetcher.py:75: pickle.dump writes the next piece of the stream
WriteCacheDump ==
    /\ probe.value.pc = "dumping"
    /\ probe.value.pos < Len(probe.value.frames)
    /\ LET w == probe.value
           bytes == SubSeq(cache[RacePath].bytes, 1, w.pos) \o << w.frames[w.pos + 1] >>
                    \o SubSeq(cache[RacePath].bytes, w.pos + 2, Len(cache[RacePath].bytes))
       IN  /\ cache' = [cache EXCEPT ![RacePath] = File(now, bytes)]
           /\ probe' = [probe EXCEPT !.value.pos = w.pos + 1,
                                     !.out = IF w.pos + 1 = Len(w.frames)
                                             THEN @ \cup {pickle_load(w.frames).value} ELSE @]
    /\ UNCHANGED RaceFrame

\* fetcher.py:74-77: the with block is left, after the last piece or by an exception
\* that _write_cache logs and swallows
WriteCacheClose ==
    /\ probe.value.pc = "dumping"
    /\ probe' = [probe EXCEPT !.value = IdleWriter]
    /\ UNCHANGED <<cache, RaceFrame>>

\* fetcher.py:54-61: the exists and age checks, then open(cache_path, 'rb')
LoadCacheOpen ==
    /\ probe.x.pc \in {"idle", "returned"}
    /\ LET f == cache[RacePath]
       IN  IF ~f.exists \/ now - f.st_mtime > cache_ttl_seconds
           THEN probe' = [probe EXCEPT !.x = [pc |-> "returned", got |-> <<>>, st_mtime |-> 0, ret |-> NoData]]
           ELSE probe' = [probe EXCEPT !.x = [pc |-> "reading", got |-> <<>>, st_mtime |-> f.st_mtime,
                                              ret |-> NoData]]
    /\ UNCHANGED <<cache, RaceFrame>>

\* fetcher.py:62: pickle.load reads the piece at its offset, until the stop frame
LoadCacheRead ==
    /\ probe.x.pc = "reading"
    /\ LET got == probe.x.got
           bytes == cache[RacePath].bytes
       IN  /\ Len(got) < Len(bytes)
           /\ ~Stopped(got)
           /\ probe' = [probe EXCEPT !.x.got = Append(got, bytes[Len(got) + 1])]
    /\ UNCHANGED <<cache, RaceFrame>>

\* fetcher.py:62-68: pickle.load returns or raises at the end of what it could read,
\* and _load_cache returns the tagged dict or None
LoadCacheReturn ==
    /\ probe.x.pc = "reading"
    /\ LET got == probe.x.got
           bytes == cache[RacePath].bytes
           seen == [cache EXCEPT ![RacePath] = File(probe.x.st_mtime, got)]
       IN  /\ (Len(got) >= Len(bytes) \/ Stopped(got))
           /\ probe' = [probe EXCEPT !.x.pc = "returned",
                                     !.x.ret = _load_cache(seen, <<"A">>, now, cache_ttl_seconds)]
    /\ UNCHANGED <<cache, RaceFrame>>

RaceInit ==
    /\ FetcherInit /\ use_cache /\ delay_between_requests = 0 /\ cache_ttl_seconds = 2
    /\ FixedScreener
    /\ probe = [key |-> "cache_race", value |-> IdleWriter, x |-> IdleReader, out |-> {}]
RaceNext ==
    \/ \E data \in RacePayloads : WriteCacheOpen(data)
    \/ WriteCacheDump
    \/ WriteCacheClose
    \/ LoadCacheOpen
    \/ LoadCacheRead
    \/ LoadCacheReturn
SpecRace == RaceInit /\ [][RaceNext]_vars

(***************************************************************************)
(* The web application's environment list, web/app.py.  Flask serves each  *)
(* request in a thread of its own; a handler reads environments.json into  *)
(* a list of its own, changes the list and writes the whole list back.     *)
(* probe holds the file (value), the handlers' locals (x) and, in out, the *)
(* ids handed out and what the answered create, update and delete requests *)
(* asked for.                                                              *)
(***************************************************************************)
Requests == {1, 2}
EnvIds == 1..MaxEnvs
Names == {"n1", "n2"}
TickerFields == {<<>>, << <<"A">> >>}

NoEnvironments == [exists |-> FALSE, text |-> <<>>]
\* app.py:44-50
_load_environments(file) == IF ~file.exists THEN <<>> ELSE file.text
\* app.py:53-54
_save_environments(environments) == [exists |-> TRUE, text |-> environments]
\* app.py:57-61: the position of the environment in the list, 0 for None
_find_environment(environments, env_id) ==
    IF \E i \in 1..Len(environments) : environments[i].id = env_id
    THEN CHOOSE i \in 1..Len(environments) :
             /\ environments[i].id = env_id
             /\ \A j \in 1..(i - 1) : environments[j].id # env_id
    ELSE 0

\* app.py:290: an id that was never handed out before
uuid4(used) == CHOOSE env_id \in EnvIds \ used : \A other \in EnvIds \ used : env_id <= other

IdleRequest == [pc |-> "idle", kind |-> "", envs |-> <<>>, env_id |-> 0, name |-> "", tickers |-> <<>>]
Untouched == [state |-> "none", name |-> ""]
Loaded(kind, envs, env_id, name, tks) ==
    [pc |-> "loaded", kind |-> kind, envs |-> envs, env_id |-> env_id, name |-> name, tickers |-> tks]
\* the handler returns its response: its locals are gone
Answered(status) == IdleRequest
Holds(r, kind) == probe.x[r].pc = "loaded" /\ probe.x[r].kind = kind

\* app.py:288-301: create_environment up to the new dict
CreateLoad(r, name, tks) ==
    /\ probe.x[r].pc = "idle"
    /\ EnvIds \ probe.out.used # {}
    /\ LET env_id == uuid4(probe.out.used)
       IN probe' = [probe EXCEPT !.x[r] = Loaded("create", _load_environments(probe.value), env_id, name, tks),
                                 !.out.used = @ \cup {env_id}]
    /\ UNCHANGED <<cache, RaceFrame>>

\* app.py:302-304
CreateSave(r) ==
    /\ Holds(r, "create")
    /\ LET l == probe.x[r]
           env == [id |-> l.env_id, name |-> l.name, tickers |-> l.tickers, last_run_at |-> 0]
       IN  probe' = [probe EXCEPT !.value = _save_environments(Append(l.envs, env)),
                                  !.x[r] = Answered(201),
                                  !.out.asked[l.env_id] = [state |-> "live", name |-> l.name]]
    /\ UNCHANGED <<cache, RaceFrame>>

\* app.py:309-313: update_environment up to the lookup
UpdateLoad(r, env_id, name) ==
    /\ probe.x[r].pc = "idle"
    /\ LET envs == _load_environments(probe.value)
       IN  probe' = [probe EXCEPT !.x[r] = IF _find_environment(envs, env_id) = 0 THEN Answered(404)
                                           ELSE Loaded("update", envs, env_id, name, <<>>)]
    /\ UNCHANGED <<cache, RaceFrame>>

\* app.py:315-323, for a payload that carries a name only
UpdateSave(r) ==
    /\ Holds(r, "update")
    /\ LET l == probe.x[r]
           i == _find_environment(l.envs, l.env_id)
       IN  probe' = [probe EXCEPT !.value = _save_environments([l.envs EXCEPT ![i].name = l.name]),
                                  !.x[r] = Answered(200),
                                  !.out.asked[l.env_id].name = l.name]
    /\ UNCHANGED <<cache, RaceFrame>>

\* app.py:328-331
DeleteLoad(r, env_id) ==
    /\ probe.x[r].pc = "idle"
    /\ LET envs == _load_environments(probe.value)
       IN  probe' = [probe EXCEPT !.x[r] = IF _find_environment(envs, env_id) = 0 THEN Answered(404)
                                           ELSE Loaded("delete", envs, env_id, "", <<>>)]
    /\ UNCHANGED <<cache, RaceFrame>>

\* app.py:332-334
DeleteSave(r) ==
    /\ Holds(r, "delete")
    /\ LET l == probe.x[r]
       IN  probe' = [probe EXCEPT !.value = _save_environments(SelectSeq(l.envs, LAMBDA item : item.id # l.env_id)),
                                  !.x[r] = Answered(200),
                                  !.out.asked[l.env_id].state = "deleted"]
    /\ UNCHANGED <<cache, RaceFrame>>

\* app.py:339-350: run_environment up to the start of the screening
RunLoad(r, env_id) ==
    /\ probe.x[r].pc = "idle"
    /\ LET envs == _load_environments(probe.value)
           i == _find_environment(envs, env_id)
       IN  probe' = [probe EXCEPT !.x[r] = IF i = 0 THEN Answered(404)
                                           ELSE IF envs[i].tickers = <<>> THEN Answered(400)
                                           ELSE Loaded("run", envs, env_id, "", <<>>)]
    /\ UNCHANGED <<cache, RaceFrame>>

\* app.py:352-389: the screening and the report are done, the run is recorded
RunSave(r) ==
    /\ Holds(r, "run")
    /\ LET l == probe.x[r]
           i == _find_environment(l.envs, l.env_id)
       IN  probe' = [probe EXCEPT !.value = _save_environments([l.envs EXCEPT ![i].last_run_at = now]),
                                  !.x[r] = Answered(200)]
    /\ UNCHANGED <<cache, RaceFrame>>

WebInit ==
    /\ FetcherInit /\ use_cache /\ delay_between_requests = 0 /\ cache_ttl_seconds = 2
    /\ FixedScreener
    /\ probe = [key |-> "environments", value |-> NoEnvironments,
                x |-> [r \in Requests |-> IdleRequest],
                out |-> [used |-> {}, asked |-> [env_id \in EnvIds |-> Untouched]]]
WebNext ==
    \E r \in Requests :
        \/ \E name \in Names, tks \in TickerFields : CreateLoad(r, name, tks)
        \/ CreateSave(r)
        \/ \E env_id \in EnvIds, name \in Names : UpdateLoad(r, env_id, name)
        \/ UpdateSave(r)
        \/ \E env_id \in EnvIds : DeleteLoad(r, env_id)
        \/ DeleteSave(r)
        \/ \E env_id \in EnvIds : RunLoad(r, env_id)
        \/ RunSave(r)
SpecWeb == WebInit /\ [][WebNext]_vars

(***************************************************************************)
(* Properties of get_financial_data.                                       *)
(***************************************************************************)
FetchDone == op = "get_financial_data" /\ pc = "returned"
AllOutcomes(kinds) == \A i \in 1..Len(outcomes) : outcomes[i] \in kinds
Last(seq) == seq[Len(seq)]
Tagged(dict) == ("_cache_hit" :> TRUE) @@ dict

C3_CallsSpacedByDelay ==
    lastGap = -1 \/ lastGap >= delay_between_requests

\* C4 as stated: a call for a ticker whose entry was written at most TTL ago returns
\* exactly the dict of the latest write
C4_ReadReturnsWrittenDict ==
    [][(Quiet /\ op' = "get_financial_data")
        => LET w == written[_cache_path(ticker')]
           IN  (w.data # NoData /\ now - w.at <= cache_ttl_seconds)
                  => (pc' = "returned" /\ ret' = w.data)]_vars

\* C4 amended: such a call returns the dict of the latest write, every field with its
\* value, with one added field _cache_hit = True
C4_ReadReturnsTaggedDict ==
    [][(Quiet /\ op' = "get_financial_data")
        => LET w == written[_cache_path(ticker')]
           IN  (w.data # NoData /\ now - w.at <= cache_ttl_seconds)
                  => /\ pc' = "returned" /\ src' = "cache"
                     /\ ret' = Some(Tagged(w.data[1]))
                     /\ \A key \in DOMAIN w.data[1] : ret'[1][key] = w.data[1][key]]_vars

\* a hit at age = TTL on an entry whose write replaced an earlier, different dict
C4_Witness ==
    /\ FetchDone /\ src = "cache"
    /\ hitAge = cache_ttl_seconds
    /\ written[_cache_path(ticker)].replaced
    /\ ret = Some(Tagged(written[_cache_path(ticker)].data[1]))

\* C5: a cache read of a missing or too old entry returns None whatever is stored, and
\* get_financial_data returns data only from an entry not older than the TTL or from a
\* provider answer of this very call
C5_NoStaleData ==
    /\ \A t \in Tickers :
          LET f == cache[_cache_path(t)]
          IN  (~f.exists \/ now - f.st_mtime > cache_ttl_seconds)
                 => _load_cache(cache, t, now, cache_ttl_seconds) = NoData
    /\ src = "cache" => (0 <= hitAge /\ hitAge <= cache_ttl_seconds)
    /\ (pc = "returned" /\ ret # NoData)
          => \/ src = "cache"
             \/ src = "network" /\ outcomes # <<>> /\ Last(outcomes) = "ok"

\* the entry is well formed but too old, and the fetch that followed the miss failed
C5_Witness ==
    /\ FetchDone /\ use_cache /\ ret = NoData
    /\ outcomes # <<>> /\ Last(outcomes) = "raise"
    /\ LET f == cache[_cache_path(ticker)]
       IN  /\ f.exists /\ ~pickle_load(f.bytes).raised
           /\ _last_request_time - f.st_mtime > cache_ttl_seconds

\* the entry stored for ticker t can be served at the time `clock`
Fresh(t, clock) ==
    LET f == cache[_cache_path(t)]
    IN  /\ f.exists /\ clock - f.st_mtime <= cache_ttl_seconds
        /\ ~pickle_load(f.bytes).raised /\ pickle_load(f.bytes).isdict

\* C16: with caching enabled a call that finds a fresh entry returns it in the same
\* step: no provider call, no time spent in the rate limit, _last_request_time unchanged
C16_HitSkipsProviderAndLimiter ==
    [][(Quiet /\ op' = "get_financial_data" /\ use_cache /\ Fresh(ticker', now))
        => /\ pc' = "returned" /\ src' = "cache" /\ ret' # NoData
           /\ calls' = 0 /\ outcomes' = <<>> /\ prevCall' = prevCall
           /\ now' = now
           /\ _last_request_time' = _last_request_time
           /\ cache' = cache]_vars

\* a hit at a time when a call to the provider would have had to wait
C16_Witness ==
    /\ FetchDone /\ use_cache /\ src = "cache" /\ ret # NoData /\ calls = 0
    /\ _last_request_time > 0
    /\ now - _last_request_time < delay_between_requests

\* C18: with caching enabled, an attempt that got both statements returns the fetched
\* dict also when the cache write failed (the file is untouched or unreadable afterwards)
C18_FailedWriteStillReturns ==
    [][(pc = "attempt" /\ use_cache /\ Len(outcomes') = Len(outcomes) + 1 /\ Last(outcomes') = "ok"
           /\ LET p == _cache_path(ticker)
              IN  cache'[p] = cache[p] \/ pickle_load(cache'[p].bytes).raised)
        => /\ pc' = "returned" /\ src' = "network"
           /\ ret' # NoData
           /\ ret'[1]["ticker"] = ticker
           /\ "_cache_hit" \notin DOMAIN ret'[1]]_vars

\* the file could not be opened: data is returned and no entry exists
C18_Witness ==
    /\ FetchDone /\ use_cache /\ src = "network" /\ ret # NoData
    /\ outcomes # <<>> /\ Last(outcomes) = "ok"
    /\ ~cache[_cache_path(ticker)].exists

\* the file stored for ticker t exists and does not unpickle to a dict
Unusable(t) ==
    LET f == cache[_cache_path(t)]
    IN  f.exists /\ (pickle_load(f.bytes).raised \/ ~pickle_load(f.bytes).isdict)

\* C19: a call that meets a stored file that is truncated or holds no dict gets None from
\* the cache read and goes on to the rate limit and the provider, leaving the file alone,
\* as a call that meets no file does
C19_BadEntryIsMiss ==
    [][/\ (Quiet /\ op' = "get_financial_data" /\ use_cache /\ Unusable(ticker'))
           => /\ pc' = "rate_limit" /\ ret' = NoData /\ src' = "none"
              /\ calls' = 0 /\ cache' = cache /\ now' = now
       /\ (pc = "rate_limit" /\ retries > 0) => (pc' = "attempt" /\ cache' = cache)
       /\ (pc = "attempt" /\ calls = 0) => calls' = 1]_vars

\* a recent pickled list is in place; the provider was called and its data returned
C19_Witness ==
    /\ FetchDone /\ use_cache /\ Unusable(ticker)
    /\ ~pickle_load(cache[_cache_path(ticker)].bytes).raised
    /\ now - cache[_cache_path(ticker)].st_mtime <= cache_ttl_seconds
    /\ calls = 1 /\ src = "network" /\ ret # NoData

\* C20: a call is served from the cache only with an entry that was fetched for the same
\* ticker up to letter case
C20_EntryOnlyForSameTicker ==
    (FetchDone /\ src = "cache") => upper(ret[1]["ticker"]) = upper(ticker)

(***************************************************************************)
(* Properties of StockScreener.                                            *)
(***************************************************************************)
ListDone == op = "screen_list" /\ spc = "done"
TickerDone == op = "screen_ticker" /\ spc = "done"
Rows == outcome.frame.rows

\* C6: the frame screen_list returns has one row per input ticker, in input order
C6_OneRowPerTickerInOrder ==
    ListDone => /\ Len(Rows) = Len(tickers)
                /\ \A i \in 1..Len(tickers) : Rows[i]["ticker"] = tickers[i]

\* a ticker given twice, with different rows: one from the provider, one from the cache
C6_Witness ==
    /\ ListDone /\ Len(tickers) = 2 /\ tickers[1] = tickers[2]
    /\ Len(Rows) = 2 /\ Rows[1]["ticker"] = Rows[2]["ticker"]
    /\ fetched[1] # fetched[2]

\* C7: a failed fetch gives that ticker a FAIL row marked data_unavailable, a raising
\* screening gives it a FAIL row, no row is missing, and every other row holds what
\* screen_ticker returns for that ticker and that fetched data
C7_FailureStaysInItsRow ==
    ListDone =>
       /\ Len(Rows) = Len(tickers) /\ Len(fetched) = Len(tickers)
       /\ ~outcome.raised
       /\ \A i \in 1..Len(tickers) :
             LET alone == screen_ticker(criteria_functions, tickers[i], fetched[i])
             IN  /\ Rows[i]["ticker"] = tickers[i]
                 /\ fetched[i] = NoData =>
                       /\ Rows[i]["status"] = "FAIL"
                       /\ Rows[i]["failed_criteria"] = List(<< <<"data_unavailable">> >>)
                 /\ alone.raised =>
                       /\ Rows[i]["status"] = "FAIL"
                       /\ Rows[i]["passed_criteria"] = Num(0)
                       /\ Rows[i]["failed_criteria"] = Str(<< <<"screening_error">> >>)
                 /\ ~alone.raised =>
                       \A key \in DOMAIN alone.value : Rows[i][key] = alone.value[key]

\* a raising screening first, then a ticker that passes
C7_Witness ==
    /\ ListDone /\ Len(tickers) = 2
    /\ screen_ticker(criteria_functions, tickers[1], fetched[1]).raised
    /\ Rows[1]["status"] = "FAIL"
    /\ Rows[2]["status"] = "PASS" /\ criteria_functions # <<>>

\* a failed fetch next to a ticker that passes
C7_WitnessFetch ==
    /\ ListDone /\ Len(tickers) = 2
    /\ fetched[2] = NoData /\ Rows[1]["status"] = "PASS"

\* every result handed back: the dict of screen_ticker, the rows of screen_list
Results ==
    (IF TickerDone /\ ~outcome.raised THEN {outcome.value} ELSE {})
    \cup (IF ListDone THEN {Rows[i] : i \in 1..Len(Rows)} ELSE {})

Descriptions(cell) == SelectSeq(cell.text, LAMBDA token : token # <<", ">>)

\* C9: for a fetched ticker screen_ticker reports total_criteria = N, passed_criteria <= N,
\* passed_criteria + number of failure descriptions = N, and PASS iff passed_criteria = N
C9_CountsAddUp ==
    (TickerDone /\ ~outcome.raised /\ fetched[1] # NoData) =>
        LET r == outcome.value
            N == Len(criteria_functions)
        IN  /\ r["total_criteria"] = Num(N)
            /\ r["passed_criteria"].k = "num" /\ r["passed_criteria"].d = 1
            /\ 0 <= r["passed_criteria"].n /\ r["passed_criteria"].n <= N
            /\ r["passed_criteria"].n + Len(Descriptions(r["failed_criteria"])) = N
            /\ r["status"] = "PASS" <=> r["passed_criteria"].n = N

\* three criteria: two pass, the third raises and is counted as failed
C9_Witness ==
    /\ TickerDone /\ ~outcome.raised /\ fetched[1] # NoData
    /\ Len(criteria_functions) = 3
    /\ outcome.value["passed_criteria"] = Num(2)
    /\ Len(Descriptions(outcome.value["failed_criteria"])) = 1

\* the record the criteria of a returned result were evaluated on
EvaluationData(r) ==
    [f \in {"market_cap", "pe_ratio", "current_ratio", "debt_to_equity", "revenue_growth",
             "net_income", "roe"} |-> r[f]]
Verdict(i, data) == criterion_func(criteria_functions[i][1], criteria_functions[i][2], data)
\* the criteria that did not pass on data, in the order of criteria_functions
NotPassing(data) ==
    SelectSeq([i \in 1..Len(criteria_functions) |-> i],
              LAMBDA i : Verdict(i, data).raised \/ ~Verdict(i, data).passed)
Screened == TickerDone /\ fetched[1] # NoData /\ ~calculate_ratios(fetched[1][1]).raised

\* C11: screen_ticker does not raise when a predicate raises; each criterion that did not
\* pass has one description, a raising one reads '<name>: evaluation_error', and the
\* criteria before and after it are evaluated and counted
C11_RaisingCriterionFailsAlone ==
    Screened =>
        /\ ~outcome.raised
        /\ LET r == outcome.value
               data == EvaluationData(r)
               fail == NotPassing(data)
               desc == Descriptions(r["failed_criteria"])
               N == Len(criteria_functions)
           IN  /\ Len(desc) = Len(fail)
               /\ \A k \in 1..Len(fail) :
                     /\ desc[k][1] = criteria_functions[fail[k]][1]
                     /\ Verdict(fail[k], data).raised
                           => desc[k] = <<criteria_functions[fail[k]][1], ": ", "evaluation_error">>
                     /\ ~Verdict(fail[k], data).raised
                           => desc[k][3] # "evaluation_error"
               /\ r["passed_criteria"] = Num(N - Len(fail))
               /\ r["total_criteria"] = Num(N)

\* the first criterion raises, the second fails on its value, the third raises, the
\* fourth passes
C11_Witness ==
    /\ Screened /\ ~outcome.raised /\ Len(criteria_functions) = 4
    /\ Verdict(1, EvaluationData(outcome.value)).raised
    /\ Verdict(4, EvaluationData(outcome.value)).passed
    /\ outcome.value["passed_criteria"] = Num(1)
    /\ Descriptions(outcome.value["failed_criteria"])[1] = <<"roe_min", ": ", "evaluation_error">>
    /\ Descriptions(outcome.value["failed_criteria"])[2][3] = "pe_ratio_above_max"

\* the place of a key in the configuration mapping
Position(key) == CHOOSE i \in 1..Len(criteria_config) : criteria_config[i][1] = key

\* C12: the failure descriptions of a result name their criteria in the order of the
\* configuration mapping, and two screenings of one ticker in one list that fetched the
\* same data report the same failures
C12_FailuresInConfigOrder ==
    /\ \A r \in Results :
          (r["failed_criteria"].type = "str") =>
             LET desc == Descriptions(r["failed_criteria"])
             IN  \A k, l \in 1..Len(desc) :
                    (k < l /\ desc[k] # <<"screening_error">> /\ desc[l] # <<"screening_error">>)
                       => Position(desc[k][1]) < Position(desc[l][1])
    /\ (ListDone /\ Len(tickers) = 2 /\ tickers[1] = tickers[2] /\ fetched[1] = fetched[2])
          => Rows[1]["failed_criteria"] = Rows[2]["failed_criteria"]

\* one ticker screened twice on the same data, with three failures each
C12_Witness ==
    /\ ListDone /\ Len(tickers) = 2 /\ tickers[1] = tickers[2]
    /\ fetched[1] = fetched[2] /\ fetched[1] # NoData
    /\ Rows[1]["failed_criteria"].type = "str"
    /\ Len(Descriptions(Rows[1]["failed_criteria"])) = 3
    /\ Rows[1]["failed_criteria"] = Rows[2]["failed_criteria"]

\* C13: when the fetch returned None screen_ticker does not raise and returns status FAIL,
\* passed_criteria 0, the one marker data_unavailable and the ticker as company_name
C13_AbsentFetchFails ==
    (TickerDone /\ fetched[1] = NoData) =>
        /\ ~outcome.raised
        /\ outcome.value["status"] = "FAIL"
        /\ outcome.value["passed_criteria"] = Num(0)
        /\ outcome.value["failed_criteria"].text = << <<"data_unavailable">> >>
        /\ outcome.value["company_name"] = tickers[1]
        /\ outcome.value["ticker"] = tickers[1]

\* the provider raised on each of the three attempts
C13_Witness ==
    /\ TickerDone /\ fetched[1] = NoData /\ ~outcome.raised
    /\ outcomes = <<"raise", "raise", "raise">>
    /\ outcome.value["company_name"] = tickers[1] /\ outcome.value["status"] = "FAIL"

\* an entry of the configuration that build_criteria_functions is to turn into a criterion
Recognized(entry) ==
    /\ entry[1] \in criterion_map
    /\ entry[1] = "positive_earnings" => entry[2] \notin {NoneV, Zero, BoolV(FALSE)}

\* C14: criteria_functions holds one pair for each recognized entry of the configuration
\* (positive_earnings only with a truthy flag), nothing for an unknown key, in the order
\* of the configuration
C14_BuildsRecognizedInOrder ==
    LET place(k) == CHOOSE i \in 1..Len(criteria_config) : criteria_config[i] = criteria_functions[k]
    IN  /\ \A k \in 1..Len(criteria_functions) :
              /\ \E i \in 1..Len(criteria_config) : criteria_config[i] = criteria_functions[k]
              /\ Recognized(criteria_functions[k])
        /\ \A i \in 1..Len(criteria_config) :
              Recognized(criteria_config[i])
                 => Cardinality({k \in 1..Len(criteria_functions) :
                                    criteria_functions[k][1] = criteria_config[i][1]}) = 1
        /\ \A k, l \in 1..Len(criteria_functions) : k < l => place(k) < place(l)

\* a false flag and an unknown key in front of two recognized entries
C14_Witness ==
    /\ Len(criteria_config) = 3
    /\ criteria_config[1] = <<"positive_earnings", BoolV(FALSE)>>
    /\ criteria_config[2][1] = "unknown_key"
    /\ criteria_config[3][1] = "pe_max"
    /\ criteria_functions = << criteria_config[3] >>

Untag(dict) == [key \in DOMAIN dict \ {"_cache_hit"} |-> dict[key]]

\* C17: a ticker screened from a cache hit gets the result it gets from the same data
\* without the tag, and in a list the row of the hit equals the row of the network fetch
\* that wrote the entry
C17_HitScreensLikeNetwork ==
    /\ (ListDone /\ Len(tickers) = 2 /\ tickers[1] = tickers[2] /\ fetched[1] # NoData
            /\ "_cache_hit" \notin DOMAIN fetched[1][1]
            /\ fetched[2] = Some(Tagged(fetched[1][1])))
          => Rows[1] = Rows[2]
    /\ (TickerDone /\ fetched[1] # NoData /\ "_cache_hit" \in DOMAIN fetched[1][1])
          => LET plain == screen_ticker(criteria_functions, tickers[1], Some(Untag(fetched[1][1])))
             IN  outcome.raised = plain.raised /\ outcome.value = plain.value

\* one ticker twice in a list: the provider answers the first, the cache the second
C17_Witness ==
    /\ ListDone /\ Len(tickers) = 2 /\ tickers[1] = tickers[2] /\ fetched[1] # NoData
    /\ "_cache_hit" \notin DOMAIN fetched[1][1]
    /\ fetched[2] = Some(Tagged(fetched[1][1]))
    /\ src = "cache" /\ written[_cache_path(tickers[1])].data = fetched[1]
    /\ Rows[1] = Rows[2] /\ Rows[1]["failed_criteria"].text # <<>>

\* C15: every result of screen_ticker and every row of screen_list carries the thirteen
\* fields, failed_criteria being one joined string
C15_EveryResultHasAllFields ==
    \A r \in Results :
        /\ \A f \in Range(SuccessKeys) : f \in DOMAIN r
        /\ r["failed_criteria"].type = "str"

(***************************************************************************)
(* Properties of the predicates.                                           *)
(***************************************************************************)
MinKeys == {"market_cap_min", "current_ratio_min", "revenue_growth_min", "roe_min"}
MaxKeys == {"pe_max", "debt_to_equity_max"}
missing_reason(key) ==
    CASE key = "market_cap_min" -> "market_cap_missing"
      [] key = "pe_max" -> "pe_ratio_missing"
      [] key = "current_ratio_min" -> "current_ratio_missing"
      [] key = "debt_to_equity_max" -> "debt_to_equity_missing"
      [] key = "revenue_growth_min" -> "revenue_growth_missing"
      [] key = "positive_earnings" -> "net_income_missing"
      [] key = "roe_min" -> "roe_missing"

\* C10: a minimum predicate passes iff v >= t, a maximum predicate iff v <= t,
\* positive_earnings iff v > 0; an absent v fails with '<field>_missing' whatever t is
C10_PredicatesCompare ==
    probe.key # "" =>
        LET v == probe.x
            t == probe.value
        IN  /\ ~probe.out.raised
            /\ v = NoneV => (~probe.out.passed /\ probe.out.reason = <<missing_reason(probe.key)>>)
            /\ (v # NoneV /\ probe.key \in MinKeys) => (probe.out.passed <=> v.n * t.d >= t.n * v.d)
            /\ (v # NoneV /\ probe.key \in MaxKeys) => (probe.out.passed <=> v.n * t.d <= t.n * v.d)
            /\ (v # NoneV /\ probe.key = "positive_earnings") => (probe.out.passed <=> v.n > 0)

\* an absent value against a threshold below zero
C10_Witness ==
    /\ probe.key = "roe_min" /\ probe.x = NoneV /\ probe.value.n < 0
    /\ ~probe.out.passed /\ probe.out.reason = <<"roe_missing">>

(***************************************************************************)
(* Properties of calculate_ratios and _get_value.                          *)
(***************************************************************************)
\* q is the quotient a / b of two numbers, b not zero
IsQuotient(q, a, b) == q.k = "num" /\ q.d # 0 /\ q.n * b.n * a.d = a.n * b.d * q.d
\* a ratio is absent exactly when an operand is missing or the denominator is zero
Guarded(q, a, b) == (q = NoneV) <=> (a = NoneV \/ b = NoneV \/ b.n = 0)

\* C21: the four ratios are the quotients of their line items, each None exactly when an
\* operand is missing or the denominator is zero; net_income is handed through; no raise
C21_RatiosAreGuardedQuotients ==
    (op = "calculate_ratios" /\ spc = "done") =>
        LET fd == probe.x
            out == probe.out
            item(series, keys) == _get_value(series, keys).value
            ca == item(fd.balance_sheet, <<"Total Current Assets", "Current Assets">>)
            cl == item(fd.balance_sheet, <<"Total Current Liabilities", "Current Liabilities">>)
            debt == item(fd.balance_sheet, <<"Total Debt", "Total Liabilities Net Minority Interest">>)
            eq == item(fd.balance_sheet, <<"Total Stockholders Equity", "Stockholders Equity">>)
            ni == item(fd.income_statement, <<"Net Income", "Net Income Common Stockholders">>)
            rev == item(fd.income_statement, <<"Total Revenue", "Revenue">>)
            prev == item(fd.prev_income_statement, <<"Total Revenue", "Revenue">>)
            r == out.value
        IN  /\ ~out.raised
            /\ DOMAIN r = {"current_ratio", "debt_to_equity", "roe", "revenue_growth", "net_income"}
            /\ Guarded(r.current_ratio, ca, cl)
            /\ r.current_ratio # NoneV => IsQuotient(r.current_ratio, ca, cl)
            /\ Guarded(r.debt_to_equity, debt, eq)
            /\ r.debt_to_equity # NoneV => IsQuotient(r.debt_to_equity, debt, eq)
            /\ Guarded(r.roe, ni, eq)
            /\ r.roe # NoneV => IsQuotient(r.roe, ni, eq)
            /\ Guarded(r.revenue_growth, rev, prev)
            /\ r.revenue_growth # NoneV
                  => IsQuotient(r.revenue_growth, Rat(rev.n * prev.d - prev.n * rev.d, rev.d * prev.d), prev)
            /\ r.net_income = ni

\* equity is zero and the earlier revenue is zero: three ratios are None, none is zero,
\* and the current ratio is -3/2
C21_Witness ==
    /\ op = "calculate_ratios" /\ spc = "done" /\ ~probe.out.raised
    /\ probe.x.balance_sheet.data = ("Current Assets" :> Num(-3)) @@ ("Total Current Liabilities" :> Num(2))
                                      @@ ("Total Debt" :> Num(2)) @@ ("Stockholders Equity" :> Num(0))
    /\ probe.x.prev_income_statement.data = ("Total Revenue" :> Num(0))
    /\ probe.x.income_statement.data = ("Net Income" :> Num(-3)) @@ ("Revenue" :> Num(2))
    /\ probe.out.value.current_ratio = Rat(-3, 2)
    /\ probe.out.value.debt_to_equity = NoneV /\ probe.out.value.roe = NoneV
    /\ probe.out.value.revenue_growth = NoneV
    /\ probe.out.value.net_income = Num(-3)

\* C22: the lookup returns the value under the first alias of the list that the statement
\* holds, None when that value is NaN or no number, None when it holds no alias
C22_FirstPresentAliasWins ==
    (op = "_get_value" /\ spc = "done") =>
        LET held == probe.x.data
            present == {i \in 1..Len(CurrentAssetsKeys) : CurrentAssetsKeys[i] \in DOMAIN held}
        IN  /\ ~probe.out.raised
            /\ present = {} => probe.out.value = NoneV
            /\ present # {} =>
                  LET first == CHOOSE i \in present : \A j \in present : i <= j
                      v == held[CurrentAssetsKeys[first]]
                  IN  IF v.k \in {"num", "bool"}
                      THEN probe.out.value.k = "num" /\ probe.out.value.n * v.d = v.n * probe.out.value.d
                      ELSE probe.out.value = NoneV

\* only the second alias is held, next to another line
C22_Witness ==
    /\ op = "_get_value" /\ spc = "done"
    /\ DOMAIN probe.x.data = {"Current Assets", "Inventory"}
    /\ probe.x.data["Current Assets"] = Rat(5, 2) /\ probe.x.data["Inventory"] = Num(2)
    /\ probe.out.value = Rat(5, 2)

(***************************************************************************)
(* Properties of filter_by_criteria and parse_inline_criteria.             *)
(***************************************************************************)
\* the k-th smallest member of a set of indices
Nth(set, k) == CHOOSE i \in set : Cardinality({j \in set : j <= i}) = k

\* C23: for a frame of results with a status column filter_by_criteria returns the rows
\* whose status is PASS, all of them, in their order, and the frame handed in is as before
C23_FilterKeepsPassRowsInOrder ==
    [][(op = "none" /\ op' = "filter_by_criteria" /\ "status" \in Range(probe.x.columns))
        => LET rows == probe.x.rows
               passing == {i \in 1..Len(rows) : rows[i]["status"] = "PASS"}
               kept == probe'.out.value.rows
           IN  /\ probe'.x = probe.x
               /\ probe'.out.value.columns = probe.x.columns
               /\ Len(kept) = Cardinality(passing)
               /\ \A k \in 1..Len(kept) : kept[k] = rows[Nth(passing, k)]]_vars

\* PASS, ERROR, PASS for two tickers: the first and the third row are returned
C23_Witness ==
    /\ op = "filter_by_criteria" /\ spc = "done"
    /\ Len(probe.x.rows) = 3
    /\ probe.x.rows[1] = [ticker |-> <<"B">>, status |-> "PASS"]
    /\ probe.x.rows[2]["status"] = "ERROR"
    /\ probe.x.rows[3] = [ticker |-> <<"A">>, status |-> "PASS"]
    /\ probe.out.value.rows = <<probe.x.rows[1], probe.x.rows[3]>>

\* C25: the mapping holds one entry for every key of a piece with '=', valued as the last
\* such piece of that key is coerced (boolean, then float, then string); pieces without
\* '=' add nothing; the empty string gives the empty mapping
C25_PairsCoercedInTrialOrder ==
    (op = "parse_inline_criteria" /\ spc = "done") =>
        LET pieces == probe.value
            parsed == probe.out.value
            with == {i \in 1..Len(pieces) : pieces[i].has}
            lastOf(key) == CHOOSE i \in with : pieces[i].key = key
                                                /\ \A j \in with : pieces[j].key = key => j <= i
        IN  /\ {parsed[k][1] : k \in 1..Len(parsed)} = {pieces[i].key : i \in with}
            /\ \A k, l \in 1..Len(parsed) : parsed[k][1] = parsed[l][1] => k = l
            /\ \A k \in 1..Len(parsed) : parsed[k][2] = pieces[lastOf(parsed[k][1])].value
            /\ probe.x = <<>> => parsed = <<>>

\* ' b = TRUE ,b=x': the key is stripped, and the later string replaces the boolean
C25_Witness ==
    /\ op = "parse_inline_criteria" /\ spc = "done"
    /\ Len(probe.value) = 2
    /\ probe.value[1].value = BoolV(TRUE) /\ probe.value[2].value = StrV(<<"x">>)
    /\ probe.out.value = << <<<<"b">>, StrV(<<"x">>)>> >>


(***************************************************************************)
(* C24: a dict fetched from the provider, and the result screened from it, *)
(* carry as company_name the longName of the provider's info when info has *)
(* one and the ticker otherwise; the name is a non-empty string.           *)
(***************************************************************************)
FromProvider(i) ==
    /\ i <= Len(fetched) /\ fetched[i] # NoData
    /\ "info" \in DOMAIN fetched[i][1]
    /\ "_cache_hit" \notin DOMAIN fetched[i][1]
DisplayName(i) ==
    LET info == fetched[i][1].info
    IN  IF "longName" \in DOMAIN info THEN info["longName"] ELSE tickers[i]

C26_ReadIsCompleteOrMiss ==
    (probe.x.pc = "returned" /\ probe.x.ret # NoData)
        => \E data \in probe.out : probe.x.ret = Some(Tagged(data))

\* a read of a file whose write stopped part-way, no writer running, is a miss
C26_PartialFileIsMiss ==
    (probe.x.pc = "returned" /\ probe.x.ret # NoData)
        => Stopped(probe.x.got)


(***************************************************************************)
(* C27: the i-th failed attempt of a fetch is followed by a wait of i      *)
(* seconds when i < retries and by none when i = retries, so a fetch whose *)
(* attempts all fail has waited 1, 2, ..., retries - 1 seconds.            *)
(***************************************************************************)
Backoffs(n) == [i \in 1..n |-> i]

C28_OnlySuccessfulFetchWrites ==
    [][(cache' # cache)
        => /\ use_cache
           /\ pc = "attempt" /\ pc' = "returned"
           /\ Last(outcomes') = "ok" /\ src' = "network" /\ ret' # NoData
           /\ \A p \in CachePaths : p # _cache_path(ticker) => cache'[p] = cache[p]]_vars

\* a fetch stored its ticker's entry while the expired entry of another ticker stayed,
\* bytes and write time
C28_Witness ==
    /\ FetchDone /\ use_cache /\ src = "network"
    /\ cache[_cache_path(ticker)].st_mtime = now
    /\ pickle_load(cache[_cache_path(ticker)].bytes).value = ret[1]
    /\ \E p \in CachePaths :
          /\ p # _cache_path(ticker)
          /\ cache[p] = OldStore[p] /\ cache[p].exists
          /\ now - cache[p].st_mtime > cache_ttl_seconds


(***************************************************************************)
(* C29: with caching enabled, a call for a ticker whose entry this program *)
(* stored completely at most TTL seconds ago is served from the cache      *)
(* without a provider call, as for a ticker named twice in one batch; so   *)
(* the provider returns data for a ticker only when no such entry exists.  *)
(***************************************************************************)
StoredFresh(t) ==
    LET w == written[_cache_path(t)]
    IN  w.data # NoData /\ now - w.at <= cache_ttl_seconds
EntersFetch == spc' = "fetching" /\ (spc # "fetching" \/ results' # results)

C29_FetchedOncePerWindow ==
    [][/\ (EntersFetch /\ use_cache /\ StoredFresh(ticker'))
           => /\ pc' = "returned" /\ src' = "cache" /\ calls' = 0
              /\ ret' = Some(Tagged(written[_cache_path(ticker')].data[1]))
       /\ (pc = "attempt" /\ Len(outcomes') = Len(outcomes) + 1 /\ Last(outcomes') = "ok" /\ use_cache)
           => ~StoredFresh(ticker)]_vars

\* a batch that names A twice: the first row came from the provider, the second from
\* the entry the first fetch stored
C29_Witness ==
    /\ op = "screen_list" /\ spc = "done"
    /\ tickers = << <<"A">>, <<"A">> >> /\ Len(fetched) = 2
    /\ fetched[1] # NoData /\ "_cache_hit" \notin DOMAIN fetched[1][1]
    /\ fetched[2] = Some(Tagged(fetched[1][1]))
    /\ src = "cache" /\ calls = 0


(***************************************************************************)
(* C30: environments.json reflects every answered create, update and       *)
(* delete: a created environment that was not deleted is in the list with  *)
(* the name of the latest update, and a deleted environment is not.        *)
(***************************************************************************)
C30_NoChangeIsLost ==
    \A env_id \in EnvIds :
        LET asked == probe.out.asked[env_id]
            envs == _load_environments(probe.value)
            i == _find_environment(envs, env_id)
        IN  /\ asked.state = "live" => (i # 0 /\ envs[i].name = asked.name)
            /\ asked.state = "deleted" => i = 0

====
